---- MODULE Spec2Model ----
(***************************************************************************)
(* A model of the RBAC subsystem of the user-mgmt worker: the D1 Store     *)
(* (User, roles, role_permissions, user_roles, audit_logs), the KV         *)
(* permission cache reached through the session-state worker, the role     *)
(* manager, the permission resolver, the super-admin bootstrap and the     *)
(* permission middleware.                                                  *)
(***************************************************************************)
EXTENDS Integers, Sequences, FiniteSets, TLC

(***************************************************************************)
(* Bounds of the model.                                                    *)
(***************************************************************************)
\* The clock runs from 0 to MaxTime seconds, in steps of TickStep seconds.
MaxTime == 150
TickStep == 30
\* The worker instances (isolates) that are started in one run.
MaxWorkers == 2
\* The /rbac handlers are followed until audit_logs holds MaxAudit rows.
MaxAudit == 2

(***************************************************************************)
(* Program constants and seeded data.                                      *)
(***************************************************************************)
\* cache.ts: const CACHE_TTL_SECONDS = 60
CACHE_TTL_SECONDS == 60
\* session-state handlers.ts: const CACHE_TTL_SECONDS = 300
KV_DEFAULT_TTL_SECONDS == 300
\* A caller-supplied ttl (setCachedPermissions' 4th argument), as in cache.test.ts.
CustomTtl == 600
\* Math.min(parseInt(limit, 10), 1000) in handleGetAuditLogs.
AUDIT_MAX_LIMIT == 1000
\* params.limit ?? 100 in getAuditLogs.
AUDIT_DEFAULT_LIMIT == 100

ADMIN_ALL == "admin:all"
SUPER_ADMIN == "SUPER_ADMIN"
MEMBER == "MEMBER"
MODERATOR == "MODERATOR"

\* The permissions table, in the order the seed inserts the rows.
PermissionNames ==
    << "admin:all", "users:read", "users:write", "users:delete",
       "roles:assign", "roles:read", "roles:write" >>

\* Role ids (the roles of the seed and of the test fixtures), in row order.
RoleOrder == << SUPER_ADMIN, MEMBER, MODERATOR >>
RoleIds == { RoleOrder[i] : i \in 1..Len(RoleOrder) }

\* The roles the seed migration inserts.
SeededRoles == { SUPER_ADMIN, MEMBER }

\* role_permissions: SUPER_ADMIN gets every permission, MEMBER only users:read;
\* MODERATOR (README: users:read, users:write, roles:read) is not seeded.
RolePermissions(r) ==
    CASE r = SUPER_ADMIN -> { PermissionNames[i] : i \in 1..Len(PermissionNames) }
      [] r = MEMBER      -> { "users:read" }
      [] r = MODERATOR   -> { "users:read", "users:write", "roles:read" }
      [] OTHER           -> {}

\* User ids; user 1 is the user whose Username is the configured SUPER_ADMIN_EMAIL.
Users == { 1, 2 }
AdminUser == 1
\* A user id with no row in User.
UnknownUser == 99999
AdminEmail == "admin@test.com"
Username(u) == IF u = AdminUser THEN AdminEmail ELSE "member@test.com"

None == "none"

(***************************************************************************)
(* Sequence helpers (JavaScript array operations).                         *)
(***************************************************************************)
Range(s) == { s[i] : i \in 1..Len(s) }
\* Array.prototype.includes
Includes(s, x) == \E i \in 1..Len(s) : s[i] = x

RECURSIVE FilterSeq(_, _)
\* The subsequence of s whose elements are in the set keep.
FilterSeq(s, keep) ==
    IF s = << >> THEN << >>
    ELSE IF Head(s) \in keep THEN << Head(s) >> \o FilterSeq(Tail(s), keep)
    ELSE FilterSeq(Tail(s), keep)

RECURSIVE Distinct(_)
\* SELECT DISTINCT: the first occurrence of each element, in order.
Distinct(s) ==
    IF s = << >> THEN << >>
    ELSE << Head(s) >> \o Distinct(FilterSeq(Tail(s), Range(s) \ { Head(s) }))

RECURSIVE Flatten(_)
Flatten(ss) == IF ss = << >> THEN << >> ELSE Head(ss) \o Flatten(Tail(ss))

(***************************************************************************)
(* State.                                                                  *)
(***************************************************************************)
VARIABLES
    env,                \* the worker's configuration: RBAC_ENABLED, SUPER_ADMIN_EMAIL
    users,              \* User table: the ids of the rows
    roles,              \* roles table: the ids of the rows
    user_roles,         \* user_roles table: the set of << user_id, role_id >> rows
    audit_logs,         \* audit_logs table: the rows in insertion order
    cache,              \* the KV namespace behind /cache/:cacheKey, by user id
    now,                \* the clock, in seconds
    mut,                \* the assignRole / removeRole call between its two awaits
    mutated,            \* the users for whom a role mutation has returned successfully
    event,              \* the latest completed operation and what it returned
    boot,               \* per worker instance: its bootstrapSuperAdmin call in flight
    bootstrapCompleted, \* per worker instance: index.ts, let bootstrapCompleted
    bootLog,            \* the finished bootstrapSuperAdmin calls, in order of return
    mw,                 \* the latest middleware call and its response
    resolving,          \* the getUserPermissions call awaiting its query
    sessionstore,       \* the KV namespace of the session-state worker, by session id
    adding,             \* the addToSession calls between their two awaits
    userRows            \* User table: ResetToken, ResetTokenTime and Password by user id

vars ==
    << env, users, roles, user_roles, audit_logs, cache, now, mut,
       mutated, event, boot, bootstrapCompleted, bootLog, mw,
       resolving, sessionstore, adding, userRows >>

storeVars == << users, roles, user_roles, audit_logs >>
bootVars == << boot, bootstrapCompleted, bootLog >>
extVars == << resolving, sessionstore, adding, userRows >>

\* No getUserPermissions call is awaiting its query.
NoResolve == [ pc |-> "idle", user |-> 0, ok |-> FALSE, perms |-> << >> ]

\* No session, no addToSession call in flight, no User row followed.
InitExt ==
    /\ resolving = NoResolve
    /\ sessionstore = << >>
    /\ adding = << >>
    /\ userRows = << >>

(***************************************************************************)
(* Configuration (env.ts).                                                 *)
(***************************************************************************)
RbacEnabledValues == { "true", "false", None }

\* A bug: RBAC counts as enabled whatever RBAC_ENABLED is.
getRbacEnabled_AlwaysOn(e) == TRUE

\* getRbacEnabled(env): RBAC is enabled only when RBAC_ENABLED is the string 'true'.
getRbacEnabled(e) == e.RBAC_ENABLED = "true"

\* getSuperAdminEmail(env): the configured SUPER_ADMIN_EMAIL, if any.
getSuperAdminEmail(e) == e.SUPER_ADMIN_EMAIL

(***************************************************************************)
(* PermissionResolver (rbac/permissions.ts).                               *)
(***************************************************************************)
\* The permission names of role r, in the order of the permissions table.
RolePermissionRows(r) ==
    FilterSeq(PermissionNames, RolePermissions(r))

\* FROM user_roles ur JOIN role_permissions rp JOIN permissions p WHERE ur.user_id = ?
JoinedRows(ur, u) ==
    Flatten([ i \in 1..Len(RoleOrder) |->
                IF << u, RoleOrder[i] >> \in ur
                THEN RolePermissionRows(RoleOrder[i])
                ELSE << >> ])

\* A bug: the DISTINCT is left out of the query.
QueryUserPermissions_NoDistinct(ur, u) == JoinedRows(ur, u)

\* SELECT DISTINCT p.name ...
QueryUserPermissions(ur, u) == Distinct(JoinedRows(ur, u))

\* A bug: the admin:all short-circuit is left out.
CollapseAdmin_NoShortCircuit(permissions) == permissions

\* if (permissions.includes('admin:all')) return ['admin:all']; return permissions;
CollapseAdmin(permissions) ==
    IF Includes(permissions, ADMIN_ALL) THEN << ADMIN_ALL >> ELSE permissions

\* A bug: the resolver serves the cached array when there is one.
getUserPermissions_FromCache(ur, kv, u) ==
    IF kv[u].present THEN kv[u].perms ELSE CollapseAdmin(QueryUserPermissions(ur, u))

\* getUserPermissions(env, userId), when the query succeeds: the Store is the
\* only thing it reads.
getUserPermissions(ur, kv, u) == CollapseAdmin(QueryUserPermissions(ur, u))

\* A bug: admin:all is not treated as holding every permission.
hasPermission_NoAdminOverride(permissions, required) == Includes(permissions, required)

\* hasPermission(permissions, required)
hasPermission(permissions, required) ==
    IF Includes(permissions, ADMIN_ALL) THEN TRUE ELSE Includes(permissions, required)

(***************************************************************************)
(* The Store statements of the role manager (rbac/roles.ts).               *)
(***************************************************************************)
\* A bug: a plain INSERT, which fails on an existing (user_id, role_id) row.
InsertUserRole_NoIgnore(ur, us, rs, u, r) ==
    IF u \in us /\ r \in rs /\ << u, r >> \notin ur
    THEN [ success |-> TRUE, rows |-> ur \cup { << u, r >> } ]
    ELSE [ success |-> FALSE, rows |-> ur ]

\* INSERT OR IGNORE INTO user_roles (user_id, role_id, assigned_at) VALUES (?, ?, ...)
\* under PRIMARY KEY (user_id, role_id) and the two FOREIGN KEYs: an existing
\* row is left alone, a row naming no user or no role is refused.
InsertUserRole(ur, us, rs, u, r) ==
    IF u \in us /\ r \in rs
    THEN [ success |-> TRUE, rows |-> ur \cup { << u, r >> } ]
    ELSE [ success |-> FALSE, rows |-> ur ]

\* A bug: the DELETE reports a failure when it matches no row.
DeleteUserRole_FailIfAbsent(ur, u, r) ==
    [ success |-> << u, r >> \in ur, rows |-> ur \ { << u, r >> } ]

\* DELETE FROM user_roles WHERE user_id = ? AND role_id = ?
DeleteUserRole(ur, u, r) ==
    [ success |-> TRUE, rows |-> ur \ { << u, r >> } ]

\* The statement of a role mutation call.
RunMutation(op, ur, us, rs, u, r) ==
    IF op = "assignRole" THEN InsertUserRole(ur, us, rs, u, r)
    ELSE DeleteUserRole(ur, u, r)

(***************************************************************************)
(* The permission cache (rbac/cache.ts, session-state handlers.ts).        *)
(***************************************************************************)
NoEntry ==
    [ present |-> FALSE, perms |-> << >>, writtenAt |-> 0, ttl |-> 0, req |-> 0,
      pre |-> FALSE ]

\* The arrays a caller may hand to setCachedPermissions.
CachePermChoices == { << ADMIN_ALL >>, << "users:read" >> }

\* A bug: the handler ignores the requested ttl.
handleSetCacheTtl_Ignored(requested) == KV_DEFAULT_TTL_SECONDS

\* handleSetCache: const ttl = requestData.ttl ?? CACHE_TTL_SECONDS (0 stands for
\* a request body without ttl).
handleSetCacheTtl(requested) ==
    IF requested = 0 THEN KV_DEFAULT_TTL_SECONDS ELSE requested

\* env.sessionstore.put(cacheKey, data, { expirationTtl: ttl })
\* (req, the ttl the writer asked for, is kept beside the entry for the record).
KvPut(kv, u, perms, ttl, req, t) ==
    [ kv EXCEPT ![u] =
        [ present |-> TRUE, perms |-> perms, writtenAt |-> t, ttl |-> ttl,
          req |-> req, pre |-> FALSE ] ]

\* A key is gone expirationTtl seconds after it was put.
KvLive(entry, t) == entry.present /\ t < entry.writtenAt + entry.ttl

\* env.sessionstore.get(cacheKey, 'json')
KvGet(kv, u, t) == IF KvLive(kv[u], t) THEN kv[u] ELSE NoEntry

\* env.sessionstore.delete(cacheKey)
KvDelete(kv, u) == IF u \in DOMAIN kv THEN [ kv EXCEPT ![u] = NoEntry ] ELSE kv

\* The entries of user u are marked as written before a committed role mutation.
MarkPre(kv, u) ==
    IF u \in DOMAIN kv
    THEN [ kv EXCEPT ![u] = IF @.present THEN [ @ EXCEPT !.pre = TRUE ] ELSE @ ]
    ELSE kv

(***************************************************************************)
(* Observations.                                                           *)
(***************************************************************************)
\* A role mutation call in flight.  before: user_roles when the call began;
\* effects: what the call has done to the Store and to the Cache so far, in order.
NoCall == [ op |-> "none", user |-> 0, role |-> "", before |-> {}, effects |-> << >> ]

\* op: the operation; ok: it returned without throwing (a handler: it answered
\* 2xx; status: the status of a handler's response); dbFault, svcFault: a
\* Store statement, a request to the session-state worker, of it failed; hit: a
\* cache read found an entry; ret: the array returned; before and effects: as
\* for a call in flight; status: the status of the response of a handler; args:
\* the query parameters of an audit query.
Ev(op, u, r, ok, dbFault, svcFault, hit, ret, before, effects) ==
    [ op |-> op, user |-> u, role |-> r, ok |-> ok, dbFault |-> dbFault,
      svcFault |-> svcFault, hit |-> hit, ret |-> ret, before |-> before,
      effects |-> effects, status |-> 0, args |-> << >> ]

NoEvent == Ev("none", 0, "", FALSE, FALSE, FALSE, FALSE, << >>, {}, << >>)

\* A call of a permission gate: which gate, the permissions it requires, the
\* request it saw (own: the request is for the requester's own roles), and the
\* response (status 0: no response, the request continues; error and details:
\* the error message of the body and the permission names the body lists).
NoMw ==
    [ kind |-> "none", required |-> << >>,
      request |-> [ session |-> "none", hasPermissions |-> FALSE, permissions |-> << >> ],
      own |-> FALSE, rbac |-> "none", status |-> 0, error |-> "", details |-> << >> ]

(***************************************************************************)
(* assignRole and removeRole (rbac/roles.ts): the statement, then the      *)
(* cache invalidation.                                                     *)
(***************************************************************************)
\* A bug: the invalidation is issued whether or not the statement succeeded.
MutAfterRun_AlwaysInvalidate(op, u, r, success, before) ==
    [ op |-> op, user |-> u, role |-> r, before |-> before,
      effects |-> << IF success THEN "store_ok" ELSE "store_fail" >> ]

\* if (!result.success) throw ...; await invalidateCachedPermissions(env, userId):
\* the call goes on to the invalidation only when the statement succeeded.
MutAfterRun(op, u, r, success, before) ==
    IF success
    THEN [ op |-> op, user |-> u, role |-> r, before |-> before,
           effects |-> << "store_ok" >> ]
    ELSE NoCall

\* await env.usersDB.prepare(query).bind(userId, roleId).run(); a statement
\* that throws or reports no success makes the call throw.
RoleMutationRun(op, u, r) ==
    /\ mut = NoCall
    /\ \E db_ok \in BOOLEAN :
         LET res == IF db_ok THEN RunMutation(op, user_roles, users, roles, u, r)
                    ELSE [ success |-> FALSE, rows |-> user_roles ]
             next == MutAfterRun(op, u, r, res.success, user_roles)
         IN /\ user_roles' = res.rows
            /\ cache' = IF res.success THEN MarkPre(cache, u) ELSE cache
            /\ mut' = next
            /\ event' = IF next = NoCall
                        THEN Ev(op, u, r, FALSE, ~db_ok, FALSE, FALSE, << >>,
                                user_roles, << "store_fail" >>)
                        ELSE NoEvent
    /\ UNCHANGED << extVars, env, users, roles, audit_logs, now, mutated, bootVars, mw >>

assignRole(u, r) == RoleMutationRun("assignRole", u, r)

removeRole(u, r) == RoleMutationRun("removeRole", u, r)

\* The statement of the call succeeded.
Stored(call) == Includes(call.effects, "store_ok")

\* A bug: a failed DELETE request is rethrown to assignRole / removeRole.
invalidateCachedPermissionsResult_Rethrows(kv, u, svc_ok) ==
    [ cache |-> IF svc_ok THEN KvDelete(kv, u) ELSE kv, threw |-> ~svc_ok ]

\* invalidateCachedPermissions(env, userId): the DELETE request inside try /
\* catch; a failure status or an exception is logged, never thrown.
invalidateCachedPermissionsResult(kv, u, svc_ok) ==
    [ cache |-> IF svc_ok THEN KvDelete(kv, u) ELSE kv, threw |-> FALSE ]

\* await invalidateCachedPermissions(env, userId), and the return of the call:
\* it throws only if the invalidation threw into its catch block.
invalidateCachedPermissions ==
    /\ mut # NoCall
    /\ \E svc_ok \in BOOLEAN :
         /\ cache' = invalidateCachedPermissionsResult(cache, mut.user, svc_ok).cache
         /\ event' = Ev(mut.op, mut.user, mut.role,
                        Stored(mut)
                          /\ ~invalidateCachedPermissionsResult(cache, mut.user,
                                                                svc_ok).threw,
                        FALSE, ~svc_ok,
                        FALSE, << >>, mut.before,
                        Append(mut.effects, IF svc_ok THEN "invalidate_ok"
                                            ELSE "invalidate_fail"))
    /\ mutated' = IF Stored(mut) THEN mutated \cup { mut.user } ELSE mutated
    /\ mut' = NoCall
    /\ UNCHANGED << extVars, env, storeVars, now, bootVars, mw >>

(***************************************************************************)
(* The resolver and the cache functions as operations.                     *)
(***************************************************************************)
\* The entries a reader can see at time t.
LiveCache(kv, t) == [ u \in Users |-> KvGet(kv, u, t) ]

\* getUserPermissions(env, userId): a failed query is rethrown.
resolve(u) ==
    /\ \E db_ok \in BOOLEAN :
         event' = IF db_ok
                  THEN Ev("resolve", u, "", TRUE, FALSE, FALSE, FALSE,
                          getUserPermissions(user_roles, LiveCache(cache, now), u),
                          {}, << >>)
                  ELSE Ev("resolve", u, "", FALSE, TRUE, FALSE, FALSE, << >>, {},
                          << >>)
    /\ UNCHANGED << extVars, env, storeVars, cache, now, mut, mutated, bootVars, mw >>

\* setCachedPermissions(env, userId, permissions, ttl = CACHE_TTL_SECONDS): a
\* failed PUT request is logged, the call never throws.
setCachedPermissions(u, perms, ttl) ==
    /\ \E svc_ok \in BOOLEAN :
         /\ cache' = IF svc_ok
                     THEN KvPut(cache, u, perms, handleSetCacheTtl(ttl), ttl, now)
                     ELSE cache
         /\ event' = Ev("setCachedPermissions", u, "", TRUE, FALSE, ~svc_ok, FALSE,
                        perms, {}, << >>)
    /\ UNCHANGED << extVars, env, storeVars, now, mut, mutated, bootVars, mw >>

\* What the GET request to the session-state worker comes to: an answer (200
\* or 404), another status, or an exception (network error, timeout).
CacheReadOutcomes == { "answer", "status", "throws" }

\* A bug: an exception of the GET request is rethrown to the caller.
getCachedPermissionsResult_Rethrows(kv, u, t, outcome) ==
    [ threw |-> outcome = "throws",
      hit |-> outcome = "answer" /\ KvGet(kv, u, t).present,
      perms |-> IF outcome = "answer" /\ KvGet(kv, u, t).present
                THEN KvGet(kv, u, t).perms ELSE << >> ]

\* getCachedPermissions(env, userId): the cached array on a 200, null on a 404,
\* on any other status and on an exception.
getCachedPermissionsResult(kv, u, t, outcome) ==
    [ threw |-> FALSE,
      hit |-> outcome = "answer" /\ KvGet(kv, u, t).present,
      perms |-> IF outcome = "answer" /\ KvGet(kv, u, t).present
                THEN KvGet(kv, u, t).perms ELSE << >> ]

getCachedPermissions(u) ==
    /\ \E outcome \in CacheReadOutcomes :
         LET res == getCachedPermissionsResult(cache, u, now, outcome)
         IN event' = Ev("getCachedPermissions", u, "", ~res.threw, FALSE,
                        outcome # "answer", res.hit, res.perms, {}, << >>)
    /\ UNCHANGED << extVars, env, storeVars, cache, now, mut, mutated, bootVars, mw >>

\* The permission arrays hasPermission is called with.
CheckPermChoices ==
    { FilterSeq(PermissionNames, S) :
        S \in SUBSET { ADMIN_ALL, "users:read", "users:write", "roles:read" } }

\* A call of hasPermission(permissions, required): the record keeps the array
\* in ret, the required permission in role and the boolean returned in hit.
checkPermission(permissions, required) ==
    /\ event' = Ev("hasPermission", 0, required, TRUE, FALSE, FALSE,
                   hasPermission(permissions, required), permissions, {}, << >>)
    /\ UNCHANGED << extVars, env, storeVars, cache, now, mut, mutated, bootVars, mw >>

\* Time passes; the keys whose expirationTtl has run out are gone.
Tick ==
    /\ now + TickStep <= MaxTime
    /\ now' = now + TickStep
    /\ cache' = LiveCache(cache, now + TickStep)
    /\ event' = NoEvent
    /\ UNCHANGED << extVars, env, storeVars, mut, mutated, bootVars, mw >>

(***************************************************************************)
(* The super-admin bootstrap (rbac/bootstrap.ts, rbac/audit.ts) and the    *)
(* middleware that runs it on a worker instance's first request (index.ts).*)
(***************************************************************************)
Workers == 1..MaxWorkers

\* A bootstrapSuperAdmin call between two awaits.  pc: the statement it is about
\* to run; userId: the user it found; startedAfter: how many calls had returned
\* when it began; applicable: whether, when it began, the configured user was
\* registered and the SUPER_ADMIN role seeded; fault: a Store statement of it
\* has failed; held: the user held the binding to SUPER_ADMIN when the call
\* looked for it; effects: the rows the call has written, in order.  The
\* record of a returned call has absent as well: no user had the configured
\* username when the call looked for one.
NoBoot ==
    [ pc |-> "none", userId |-> 0, startedAfter |-> 0, applicable |-> FALSE,
      fault |-> FALSE, held |-> FALSE, effects |-> << >> ]

\* SELECT UserID FROM User WHERE Username = ?
FindUserByUsername(us, email) == { u \in us : Username(u) = email }

\* A bug: the check never finds the binding.
userHasSuperAdminRole_Never(ur, rs, u) == FALSE

\* SELECT ur.user_id FROM user_roles ur JOIN roles r ON ur.role_id = r.id
\* WHERE ur.user_id = ? AND r.name = ?
userHasSuperAdminRole(ur, rs, u) ==
    SUPER_ADMIN \in rs /\ << u, SUPER_ADMIN >> \in ur

\* SELECT id FROM roles WHERE name = ?
getSuperAdminRoleId(rs) == IF SUPER_ADMIN \in rs THEN SUPER_ADMIN ELSE None

\* logAuditEvent: the row of one INSERT INTO audit_logs; the table stamps it with
\* the time of the INSERT.
AuditRow(action, actorUsername, targetType, targetId, details) ==
    [ action |-> action, actorUsername |-> actorUsername, targetType |-> targetType,
      targetId |-> targetId, details |-> details, success |-> TRUE,
      timestamp |-> now ]

\* A bug: the failure of the INSERT is rethrown to the caller.
logAuditEvent_Rethrows(logs, row, db_ok) ==
    [ logs |-> IF db_ok THEN Append(logs, row) ELSE logs, threw |-> ~db_ok ]

\* logAuditEvent(env, params): INSERT INTO audit_logs inside try / catch; the
\* catch logs to the console and does not rethrow.
logAuditEvent(logs, row, db_ok) ==
    [ logs |-> IF db_ok THEN Append(logs, row) ELSE logs, threw |-> FALSE ]

\* logBootstrapSuperAdmin(env, userId, username)
BootstrapAuditRow(u) ==
    AuditRow("BOOTSTRAP_SUPER_ADMIN", "SYSTEM", "USER", ToString(u), "")

\* A bug: the catch block of bootstrapSuperAdmin rethrows.
bootstrapSuperAdminThrows_Rethrows(failed) == failed

\* catch (error) { console.error(...) } of bootstrapSuperAdmin: whether the call
\* throws to its caller when a statement inside its try block has failed.
bootstrapSuperAdminThrows(failed) == FALSE

\* try { await bootstrapSuperAdmin(env) } catch (error) { console.error(...) } of
\* bootstrapMiddleware: the middleware returns and the router goes on to the
\* handler of the request, whether or not the call threw.
bootstrapMiddlewareContinues(threw) == TRUE

\* The call of worker w returns (normally or through its catch), having
\* written effects.
BootReturnWith(w, outcome, fault, effects) ==
    /\ bootLog' = Append(bootLog,
                         [ worker |-> w, startedAfter |-> boot[w].startedAfter,
                           applicable |-> boot[w].applicable, fault |-> fault,
                           outcome |-> outcome, email |-> getSuperAdminEmail(env),
                           userId |-> boot[w].userId,
                           absent |-> /\ boot[w].userId = 0
                                      /\ \A u \in users :
                                           Username(u) # getSuperAdminEmail(env),
                           held |-> \/ boot[w].held
                                    \/ /\ boot[w].pc = "hasRole"
                                       /\ << boot[w].userId, SUPER_ADMIN >>
                                               \in user_roles,
                           effects |-> effects,
                           threw |-> bootstrapSuperAdminThrows(outcome = "error"),
                           continued |-> bootstrapMiddlewareContinues(
                               bootstrapSuperAdminThrows(outcome = "error")) ])
    /\ boot' = [ boot EXCEPT ![w] = NoBoot ]

BootReturn(w, outcome, fault) == BootReturnWith(w, outcome, fault, boot[w].effects)

BootGoto(w, pc) == boot' = [ boot EXCEPT ![w].pc = pc ]

\* A bug: the flag of the worker instance is not consulted.
bootstrapShouldRun_IgnoresFlag(completed, e) == getRbacEnabled(e)

\* if (!bootstrapCompleted && getRbacEnabled(env))
bootstrapShouldRun(completed, e) == ~completed /\ getRbacEnabled(e)

\* bootstrapMiddleware, on a request to worker instance w: the test of the flag
\* and its assignment have no await between them, so no other request of the
\* instance runs between the two.  The flag is set
\* before bootstrapSuperAdmin is awaited, and bootstrapSuperAdmin returns at
\* once when no SUPER_ADMIN_EMAIL is configured.
bootstrapMiddleware(w) ==
    /\ IF bootstrapShouldRun(bootstrapCompleted[w], env)
       THEN /\ bootstrapCompleted' = [ bootstrapCompleted EXCEPT ![w] = TRUE ]
            /\ IF getSuperAdminEmail(env) = None
               THEN /\ bootLog' = Append(bootLog,
                                         [ worker |-> w, startedAfter |-> Len(bootLog),
                                           applicable |-> FALSE, fault |-> FALSE,
                                           outcome |-> "no_email", email |-> None,
                                           userId |-> 0, absent |-> FALSE,
                                           held |-> FALSE,
                                           effects |-> << >>, threw |-> FALSE,
                                           continued |->
                                               bootstrapMiddlewareContinues(FALSE) ])
                    /\ boot' = boot
               ELSE /\ boot' = [ boot EXCEPT ![w] =
                                   [ pc |-> "findUser", userId |-> 0,
                                     startedAfter |-> Len(bootLog),
                                     applicable |->
                                         /\ FindUserByUsername(users,
                                                getSuperAdminEmail(env)) # {}
                                         /\ SUPER_ADMIN \in roles,
                                     fault |-> FALSE, held |-> FALSE,
                                     effects |-> << >> ] ]
                    /\ bootLog' = bootLog
       ELSE UNCHANGED bootVars
    /\ UNCHANGED << extVars, env, storeVars, cache, now, mut, mutated, event, mw >>

\* const user = await db.prepare('SELECT UserID FROM User WHERE Username = ?')...
BootFindUser(w) ==
    /\ boot[w].pc = "findUser"
    /\ \E db_ok \in BOOLEAN :
         LET found == FindUserByUsername(users, getSuperAdminEmail(env))
         IN IF ~db_ok THEN BootReturn(w, "error", TRUE)
            ELSE IF found = {} THEN BootReturn(w, "no_user", FALSE)
            ELSE boot' = [ boot EXCEPT ![w].pc = "hasRole",
                                       ![w].userId = CHOOSE u \in found : TRUE ]
                 /\ bootLog' = bootLog
    /\ UNCHANGED << extVars, env, storeVars, cache, now, mut, mutated, event,
                    bootstrapCompleted, mw >>

\* const hasSuperAdmin = await userHasSuperAdminRole(env, userId.toString())
BootHasRole(w) ==
    /\ boot[w].pc = "hasRole"
    /\ \E db_ok \in BOOLEAN :
         IF ~db_ok THEN BootReturn(w, "error", TRUE)
         ELSE IF userHasSuperAdminRole(user_roles, roles, boot[w].userId)
              THEN BootReturn(w, "already", FALSE)
              ELSE /\ boot' = [ boot EXCEPT
                                  ![w].pc = "getRoleId",
                                  ![w].held = << boot[w].userId, SUPER_ADMIN >>
                                                  \in user_roles ]
                   /\ bootLog' = bootLog
    /\ UNCHANGED << extVars, env, storeVars, cache, now, mut, mutated, event,
                    bootstrapCompleted, mw >>

\* const superAdminRoleId = await getSuperAdminRoleId(env)
BootGetRoleId(w) ==
    /\ boot[w].pc = "getRoleId"
    /\ \E db_ok \in BOOLEAN :
         IF ~db_ok THEN BootReturn(w, "error", TRUE)
         ELSE IF getSuperAdminRoleId(roles) = None
              THEN BootReturn(w, "no_role", FALSE)
              ELSE BootGoto(w, "assignRole") /\ bootLog' = bootLog
    /\ UNCHANGED << extVars, env, storeVars, cache, now, mut, mutated, event,
                    bootstrapCompleted, mw >>

\* await assignRole(env, userId, superAdminRoleId): its statement; a failure is
\* rethrown by assignRole and caught by bootstrapSuperAdmin.
BootAssignRole(w) ==
    /\ boot[w].pc = "assignRole"
    /\ \E db_ok \in BOOLEAN :
         LET res == IF db_ok
                    THEN InsertUserRole(user_roles, users, roles, boot[w].userId,
                                        getSuperAdminRoleId(roles))
                    ELSE [ success |-> FALSE, rows |-> user_roles ]
         IN /\ user_roles' = res.rows
            /\ cache' = IF res.success THEN MarkPre(cache, boot[w].userId) ELSE cache
            /\ IF res.success
               THEN /\ boot' = [ boot EXCEPT
                                   ![w].pc = "invalidate",
                                   ![w].effects =
                                       IF res.rows # user_roles
                                       THEN Append(@, "binding") ELSE @ ]
                    /\ bootLog' = bootLog
               ELSE BootReturn(w, "error", TRUE)
    /\ UNCHANGED << extVars, env, users, roles, audit_logs, now, mut, mutated, event,
                    bootstrapCompleted, mw >>

\* ... and its invalidateCachedPermissions; were it to throw, assignRole would
\* rethrow into the catch of bootstrapSuperAdmin.
BootInvalidate(w) ==
    /\ boot[w].pc = "invalidate"
    /\ \E svc_ok \in BOOLEAN :
         LET inv == invalidateCachedPermissionsResult(cache, boot[w].userId, svc_ok)
         IN /\ cache' = inv.cache
            /\ IF inv.threw
               THEN BootReturn(w, "error", TRUE)
               ELSE BootGoto(w, "audit") /\ bootLog' = bootLog
    /\ mutated' = mutated \cup { boot[w].userId }
    /\ UNCHANGED << extVars, env, storeVars, now, mut, event, bootstrapCompleted, mw >>

\* await logBootstrapSuperAdmin(env, userId, superAdminEmail): logAuditEvent
\* swallows a failed INSERT.
BootAudit(w) ==
    /\ boot[w].pc = "audit"
    /\ \E db_ok \in BOOLEAN :
         /\ audit_logs' = logAuditEvent(audit_logs, BootstrapAuditRow(boot[w].userId),
                                        db_ok).logs
         /\ BootReturnWith(w, IF logAuditEvent(audit_logs,
                                                BootstrapAuditRow(boot[w].userId),
                                                db_ok).threw
                              THEN "error" ELSE "assigned", ~db_ok,
                           IF logAuditEvent(audit_logs,
                                            BootstrapAuditRow(boot[w].userId),
                                            db_ok).logs # audit_logs
                           THEN Append(boot[w].effects, "audit")
                           ELSE boot[w].effects)
    /\ UNCHANGED << extVars, env, users, roles, user_roles, cache, now, mut, mutated, event,
                    bootstrapCompleted, mw >>

\* bootstrapSuperAdmin(env), from one await to the next.
bootstrapSuperAdmin(w) ==
    \/ BootFindUser(w)
    \/ BootHasRole(w)
    \/ BootGetRoleId(w)
    \/ BootAssignRole(w)
    \/ BootInvalidate(w)
    \/ BootAudit(w)

\* handleRegister, on a request to worker instance w: the router runs
\* bootstrapMiddleware before every handler, so with RBAC enabled the flag of w
\* is set by the time a handler of w runs.  A username already taken is a 409.
\* storeUser inserts the row of the user and the handler answers 201; it makes
\* no other statement.
handleRegister(w, u) ==
    /\ getRbacEnabled(env) => bootstrapCompleted[w]
    /\ u \notin users
    /\ users' = users \cup { u }
    /\ event' = [ Ev("handleRegister", u, "", TRUE, FALSE, FALSE, FALSE, << >>,
                     user_roles, << "store_ok" >>) EXCEPT !.status = 201 ]
    /\ UNCHANGED << extVars, env, roles, user_roles, audit_logs, cache, now, mut, mutated,
                    bootVars, mw >>

(***************************************************************************)
(* The permission middleware (middleware/rbac.ts) and the gate of the      *)
(* /rbac routes (handlers/rbac.ts).                                        *)
(***************************************************************************)
\* The permission arrays a session may carry.
SessionPermChoices ==
    { << >>, << ADMIN_ALL >>, << "users:read" >>, << "users:read", "users:write" >>,
      << "roles:read" >> }

\* What a request brings: no session cookie, a cookie whose session does not
\* load or has the wrong shape, a session without a permissions field, or a
\* session with one.
Requests ==
    { [ session |-> "none", hasPermissions |-> FALSE, permissions |-> << >> ],
      [ session |-> "invalid", hasPermissions |-> FALSE, permissions |-> << >> ],
      [ session |-> "valid", hasPermissions |-> FALSE, permissions |-> << >> ] }
    \cup { [ session |-> "valid", hasPermissions |-> TRUE, permissions |-> ps ] :
             ps \in SessionPermChoices }

\* The permission a single-permission gate is built with.
RequiredChoices == { "users:read", "users:write", "roles:read" }

\* The lists requireAnyPermission and requireAllPermissions are built with.
RequiredListChoices ==
    { << "users:read", "users:write" >>, << "roles:read", "roles:assign" >>,
      << "users:write" >> }

\* A bug: a request without a session is treated as one with an empty session.
HasSessionData_Always(req) == TRUE

\* request.sessionData is attached only for a session that loaded.
HasSessionData(req) == req.session = "valid"

\* request.sessionData.permissions || []
UserPermissions(req) == IF req.hasPermissions THEN req.permissions ELSE << >>

Continue == [ status |-> 0, error |-> "", details |-> << >> ]

\* new Response(JSON.stringify({ error: message }), { status })
ErrorResponse(message, status) ==
    [ status |-> status, error |-> message, details |-> << >> ]

\* new Response(JSON.stringify({ ... }), { headers }) with the default status
OkResponse == [ status |-> 200, error |-> "", details |-> << >> ]

\* A bug: the flag is not consulted, the gate always enforces.
requirePermissionMw_AlwaysEnforce(e, req, permission) ==
    IF ~HasSessionData(req) THEN ErrorResponse("Authentication required", 401)
    ELSE IF ~hasPermission(UserPermissions(req), permission)
         THEN ErrorResponse("Insufficient permissions", 403)
         ELSE Continue

\* requirePermission(permission)(request, env) of the middleware
requirePermissionMw(e, req, permission) ==
    IF ~getRbacEnabled(e) THEN Continue
    ELSE IF ~HasSessionData(req) THEN ErrorResponse("Authentication required", 401)
    ELSE IF ~hasPermission(UserPermissions(req), permission)
         THEN ErrorResponse("Insufficient permissions", 403)
         ELSE Continue

\* A bug: every() in place of some().
requireAnyPermission_NeedsAll(e, req, permissions) ==
    IF ~getRbacEnabled(e) THEN Continue
    ELSE IF ~HasSessionData(req) THEN ErrorResponse("Authentication required", 401)
    ELSE IF ~(\A i \in 1..Len(permissions) :
                 hasPermission(UserPermissions(req), permissions[i]))
         THEN ErrorResponse("Insufficient permissions", 403)
         ELSE Continue

\* requireAnyPermission(permissions)(request, env)
requireAnyPermission(e, req, permissions) ==
    IF ~getRbacEnabled(e) THEN Continue
    ELSE IF ~HasSessionData(req) THEN ErrorResponse("Authentication required", 401)
    ELSE IF ~(\E i \in 1..Len(permissions) :
                 hasPermission(UserPermissions(req), permissions[i]))
         THEN ErrorResponse("Insufficient permissions", 403)
         ELSE Continue

\* permissions.filter(permission => !hasPermission(userPermissions, permission))
MissingPermissions(req, permissions) ==
    FilterSeq(permissions,
              { p \in Range(permissions) : ~hasPermission(UserPermissions(req), p) })

\* A bug: the session is demanded before the flag is consulted.
requireAllPermissions_SessionFirst(e, req, permissions) ==
    IF ~HasSessionData(req) THEN ErrorResponse("Authentication required", 401)
    ELSE IF ~getRbacEnabled(e) THEN Continue
    ELSE IF Len(MissingPermissions(req, permissions)) > 0
         THEN ErrorResponse("Insufficient permissions", 403)
         ELSE Continue

\* A bug: the request passes as soon as one required permission is held.
requireAllPermissions_AnySuffices(e, req, permissions) ==
    IF ~getRbacEnabled(e) THEN Continue
    ELSE IF ~HasSessionData(req) THEN ErrorResponse("Authentication required", 401)
    ELSE IF Len(MissingPermissions(req, permissions)) = Len(permissions)
         THEN ErrorResponse("Insufficient permissions", 403)
         ELSE Continue

\* A bug: the 403 body lists the missing permissions (as the log line does).
requireAllPermissions_LeakMissing(e, req, permissions) ==
    IF ~getRbacEnabled(e) THEN Continue
    ELSE IF ~HasSessionData(req) THEN ErrorResponse("Authentication required", 401)
    ELSE IF Len(MissingPermissions(req, permissions)) > 0
         THEN [ status |-> 403, error |-> "Insufficient permissions",
                details |-> MissingPermissions(req, permissions) ]
         ELSE Continue

\* requireAllPermissions(permissions)(request, env)
requireAllPermissions(e, req, permissions) ==
    IF ~getRbacEnabled(e) THEN Continue
    ELSE IF ~HasSessionData(req) THEN ErrorResponse("Authentication required", 401)
    ELSE IF Len(MissingPermissions(req, permissions)) > 0
         THEN ErrorResponse("Insufficient permissions", 403)
         ELSE Continue

\* A bug: like the permission gates, the gate is off when RBAC is off.
requireAuth_OffWhenDisabled(e, req) ==
    IF ~getRbacEnabled(e) THEN Continue
    ELSE IF ~HasSessionData(req) THEN ErrorResponse("Authentication required", 401)
    ELSE Continue

\* requireAuth()(request, env)
requireAuth(e, req) ==
    IF ~HasSessionData(req) THEN ErrorResponse("Authentication required", 401)
    ELSE Continue

\* requirePermission(request, env, permission) of the /rbac handlers: error is
\* the response, Continue stands for { authorized: true }.
requirePermissionHandler(e, req, permission) ==
    IF ~getRbacEnabled(e) THEN ErrorResponse("RBAC is not enabled", 403)
    ELSE IF req.session = "none" THEN ErrorResponse("Authentication required", 401)
    ELSE IF req.session = "invalid" THEN ErrorResponse("Invalid session", 401)
    ELSE IF ~req.hasPermissions \/ ~hasPermission(req.permissions, permission)
         THEN ErrorResponse("Insufficient permissions", 403)
         ELSE Continue

\* The route GET /rbac/users/:userId/roles and handleGetUserRoles.  current: the
\* UserID of the session's username (0: no such row); userId: the id in the
\* path (0: not a number); db_ok: the Store answers the handler's queries.
handleGetUserRoles(e, req, current, userId, db_ok) ==
    IF ~getRbacEnabled(e) THEN ErrorResponse("RBAC is not enabled", 403)
    ELSE IF userId = 0 THEN ErrorResponse("Invalid user ID", 400)
    ELSE IF req.session = "none" THEN ErrorResponse("Authentication required", 401)
    ELSE IF req.session = "invalid" THEN ErrorResponse("Invalid session", 401)
    ELSE IF ~db_ok THEN ErrorResponse("Internal server error", 500)
    ELSE IF current = 0 THEN ErrorResponse("User not found", 404)
    ELSE IF /\ current # userId
            /\ req.hasPermissions
            /\ ~hasPermission(req.permissions, "roles:read")
         THEN ErrorResponse("Insufficient permissions", 403)
         ELSE OkResponse

\* One gate is called on one request.
MwRecord(kind, required, req, resp) ==
    [ kind |-> kind, required |-> required, request |-> req, own |-> FALSE,
      rbac |-> env.RBAC_ENABLED, status |-> resp.status, error |-> resp.error,
      details |-> resp.details ]

MwUnchanged ==
    UNCHANGED << extVars, env, storeVars, cache, now, mut, mutated, event, bootVars >>

CallRequirePermission(req, p) ==
    /\ mw' = MwRecord("requirePermission", << p >>, req,
                      requirePermissionMw(env, req, p))
    /\ MwUnchanged

CallRequireAnyPermission(req, ps) ==
    /\ mw' = MwRecord("requireAnyPermission", ps, req,
                      requireAnyPermission(env, req, ps))
    /\ MwUnchanged

CallRequireAllPermissions(req, ps) ==
    /\ mw' = MwRecord("requireAllPermissions", ps, req,
                      requireAllPermissions(env, req, ps))
    /\ MwUnchanged

CallRequireAuth(req) ==
    /\ mw' = MwRecord("requireAuth", << >>, req, requireAuth(env, req))
    /\ MwUnchanged

CallHandlerRequirePermission(req, p) ==
    /\ mw' = MwRecord("handlerRequirePermission", << p >>, req,
                      requirePermissionHandler(env, req, p))
    /\ MwUnchanged

CallGetUserRoles(req, current, userId) ==
    /\ \E db_ok \in BOOLEAN :
         mw' = [ MwRecord("handleGetUserRoles", << "roles:read" >>, req,
                          handleGetUserRoles(env, req, current, userId, db_ok))
                   EXCEPT !.own = (current = userId) ]
    /\ MwUnchanged

(***************************************************************************)
(* The gates on every request, under every setting of RBAC_ENABLED.        *)
(***************************************************************************)
InitMw ==
    /\ env \in [ RBAC_ENABLED : RbacEnabledValues, SUPER_ADMIN_EMAIL : { AdminEmail } ]
    /\ users = Users
    /\ roles = SeededRoles
    /\ user_roles = {}
    /\ audit_logs = << >>
    /\ cache = [ u \in Users |-> NoEntry ]
    /\ now = 0
    /\ mut = NoCall
    /\ mutated = {}
    /\ event = NoEvent
    /\ boot = [ w \in Workers |-> NoBoot ]
    /\ bootstrapCompleted = [ w \in Workers |-> FALSE ]
    /\ bootLog = << >>
    /\ mw = NoMw
    /\ InitExt

NextMw ==
    \/ \E req \in Requests, p \in RequiredChoices : CallRequirePermission(req, p)
    \/ \E req \in Requests, ps \in RequiredListChoices :
         CallRequireAnyPermission(req, ps)
    \/ \E req \in Requests, ps \in RequiredListChoices :
         CallRequireAllPermissions(req, ps)
    \/ \E req \in Requests : CallRequireAuth(req)
    \/ \E req \in Requests, p \in RequiredChoices :
         CallHandlerRequirePermission(req, p)
    \/ \E req \in Requests, current \in users \cup { 0 }, userId \in Users \cup { 0 } :
         CallGetUserRoles(req, current, userId)

SpecMw == InitMw /\ [][NextMw]_vars

(***************************************************************************)
(* The /rbac mutation handlers (handlers/rbac.ts) with createRole          *)
(* (rbac/roles.ts) and the audit helpers (rbac/audit.ts).  A handler is    *)
(* one step; lookup_ok, stmt_ok, actor_ok, audit_ok say whether the Store  *)
(* answers its lookups, its statement, the actor lookup and the audit      *)
(* INSERT, svc_ok whether the session-state worker answers the DELETE of   *)
(* the cache entry.                                                        *)
(***************************************************************************)
\* The actors of the requests: the users the sessions belong to.
ApiActors == { AdminUser }

\* What the requests to the handlers bring: no session, a session of a reader,
\* a session of an administrator.
ApiRequests ==
    { [ session |-> "none", hasPermissions |-> FALSE, permissions |-> << >> ],
      [ session |-> "valid", hasPermissions |-> TRUE, permissions |-> << "users:read" >> ],
      [ session |-> "valid", hasPermissions |-> TRUE, permissions |-> << ADMIN_ALL >> ] }

\* The first call on the Store that fails during a request, if any: a handler
\* returns at its first failed call, the audit INSERT being its last.
AssignFailPoints == { None, "lookup", "statement", "audit" }

\* The faults of one assignment or removal: the failing Store call and whether
\* the session-state worker answers, which is asked only after the statement.
AssignFaults ==
    { [ fail |-> f, svc_ok |-> b ] : f \in { None, "audit" }, b \in BOOLEAN }
    \cup { [ fail |-> f, svc_ok |-> TRUE ] : f \in { "lookup", "statement" } }

CreateFailPoints == { None, "statement", "actor", "audit" }

\* :userId of the path: a registered user, an unknown id, not a number (0).
ApiUserIds == { 2, UnknownUser, 0 }

\* roleId of the body or path: a seeded role, one not (yet) in roles.
ApiRoleIds == { MEMBER, MODERATOR }

\* name of the body of POST /rbac/roles: a new name, a name in use, a name
\* too short, none.
ApiRoleNames == { MODERATOR, MEMBER, "X", "" }

\* validateRoleName(name), on the names of ApiRoleNames.
validateRoleName(name) ==
    IF name = "X" THEN "Role name must be at least 2 characters" ELSE None

\* The text of the error a failing call on the Store throws, and the text of
\* the failure of the UNIQUE constraint on roles.name.
StoreErrorText == "D1_ERROR: no such table"

UniqueErrorText == "D1_ERROR: UNIQUE constraint failed: roles.name"

\* `Role with name '${name}' already exists`
DuplicateNameMessage(name) ==
    IF name = MEMBER THEN "Role with name 'MEMBER' already exists"
    ELSE IF name = MODERATOR THEN "Role with name 'MODERATOR' already exists"
    ELSE "Role with name 'SUPER_ADMIN' already exists"

\* createRole(env, name, description): INSERT INTO roles; an error whose text
\* includes 'UNIQUE constraint' is rethrown as DuplicateNameMessage, any other
\* as 'Failed to create role'.
createRole(rs, name, db_ok) ==
    LET raw == IF ~db_ok THEN StoreErrorText
               ELSE IF name \in rs THEN UniqueErrorText ELSE ""
    IN IF raw = "" THEN [ ok |-> TRUE, roles |-> rs \cup { name }, error |-> "" ]
       ELSE [ ok |-> FALSE, roles |-> rs,
              error |-> IF raw = UniqueErrorText THEN DuplicateNameMessage(name)
                        ELSE "Failed to create role" ]

\* logRoleAssigned, logRoleRemoved, logRoleCreated: the rows they write.
RoleAssignedRow(actor, userId, roleId) ==
    AuditRow("ROLE_ASSIGNED", Username(actor), "USER", ToString(userId), roleId)

RoleRemovedRow(actor, userId, roleId) ==
    AuditRow("ROLE_REMOVED", Username(actor), "USER", ToString(userId), roleId)

RoleCreatedRow(actor, roleId) ==
    AuditRow("ROLE_CREATED", Username(actor), "ROLE", roleId, "")

\* What a handler did: its response, the tables and the cache after it, and
\* its steps on the Store and the Cache in order.
ApiResult(status, ur, rs, kv, logs, effects, dbFault, svcFault) ==
    [ status |-> status, error |-> "", user_roles |-> ur, roles |-> rs, cache |-> kv,
      audit_logs |-> logs, effects |-> effects, dbFault |-> dbFault,
      svcFault |-> svcFault ]

\* The handler answers with the error response resp.
Answer(result, resp) == [ result EXCEPT !.status = resp.status, !.error = resp.error ]

\* The handler returns resp before it touches anything.
ApiEarly(resp, dbFault) ==
    Answer(ApiResult(0, user_roles, roles, cache, audit_logs, << >>, dbFault, FALSE),
           resp)

\* catch (error) of handleAssignRole and handleRemoveRole: the error is logged
\* to the console, the response is 500 'Internal server error'.
handlerCatch(errorMessage) == ErrorResponse("Internal server error", 500)

\* A bug: the response of the catch block carries the message of the error.
handleCreateRoleCatch_EchoesError(errorMessage) ==
    ErrorResponse(errorMessage, IF errorMessage = "DUPLICATE_ROLE_NAME" THEN 409 ELSE 500)

\* catch (error) of handleCreateRole: 409 with a fixed message when the message
\* of the error is 'DUPLICATE_ROLE_NAME', else 500 'Internal server error'.
handleCreateRoleCatch(errorMessage) ==
    IF errorMessage = "DUPLICATE_ROLE_NAME"
    THEN ErrorResponse("Role with that name already exists", 409)
    ELSE ErrorResponse("Internal server error", 500)

\* The steps of a handler after its statement succeeded: the invalidation of
\* assignRole / removeRole, then the audit row when audited holds.
AfterStatement(okStatus, ur, rs, userId, row, audited, svc_ok, audit_ok, caught) ==
    LET kv == IF svc_ok THEN KvDelete(MarkPre(cache, userId), userId)
              ELSE MarkPre(cache, userId)
        inv == IF svc_ok THEN "invalidate_ok" ELSE "invalidate_fail"
        audit == logAuditEvent(audit_logs, row, audit_ok)
    IN IF ~audited
       THEN ApiResult(okStatus, ur, rs, kv, audit_logs, << "store_ok", inv >>,
                      FALSE, ~svc_ok)
       ELSE LET done == ApiResult(okStatus, ur, rs, kv, audit.logs,
                                  << "store_ok", inv,
                                     IF audit_ok THEN "audit_ok" ELSE "audit_fail" >>,
                                  FALSE, ~svc_ok)
            IN IF audit.threw THEN Answer(done, caught) ELSE done

\* A bug: the handler goes on after a failed statement as after a successful
\* one.
StatementFailed_GoesOn(userId, row, caught) ==
    LET went == AfterStatement(200, user_roles, roles, userId, row, TRUE, TRUE, TRUE,
                               caught)
    IN [ went EXCEPT !.effects = << "store_fail" >> \o Tail(@), !.dbFault = TRUE ]

\* assignRole / removeRole throw on a statement that failed, before their
\* invalidation; the throw lands in the catch block of the handler, past the
\* audit call.
StatementFailed(userId, row, caught) ==
    Answer(ApiResult(0, user_roles, roles, cache, audit_logs, << "store_fail" >>,
                     TRUE, FALSE),
           caught)

\* A bug: the results of the two lookups are not looked at.
assignLookups_Unchecked(us, rs, userId, roleId) == Continue

\* if (!targetUserResult) return 404 'User not found';
\* if (!roleResult) return 404 'Role not found'
assignLookups(us, rs, userId, roleId) ==
    IF userId \notin us THEN ErrorResponse("User not found", 404)
    ELSE IF roleId \notin rs THEN ErrorResponse("Role not found", 404)
    ELSE Continue

\* handleAssignRole: POST /rbac/users/:userId/roles
handleAssignRoleResult(req, actor, userId, roleId, lookup_ok, stmt_ok, svc_ok, audit_ok) ==
    LET auth == requirePermissionHandler(env, req, "roles:assign")
        res == IF stmt_ok THEN InsertUserRole(user_roles, users, roles, userId, roleId)
               ELSE [ success |-> FALSE, rows |-> user_roles ]
    IN IF auth.status # 0 THEN ApiEarly(auth, FALSE)
       ELSE IF userId = 0 THEN ApiEarly(ErrorResponse("Invalid user ID", 400), FALSE)
       ELSE IF roleId = "" THEN ApiEarly(ErrorResponse("Role ID is required", 400), FALSE)
       ELSE IF ~lookup_ok THEN ApiEarly(handlerCatch(StoreErrorText), TRUE)
       ELSE IF assignLookups(users, roles, userId, roleId) # Continue
            THEN ApiEarly(assignLookups(users, roles, userId, roleId), FALSE)
       ELSE IF ~res.success
            THEN StatementFailed(userId, RoleAssignedRow(actor, userId, roleId),
                                 handlerCatch("Failed to assign role to user"))
            ELSE AfterStatement(200, res.rows, roles, userId,
                                RoleAssignedRow(actor, userId, roleId),
                                actor \in users,
                                svc_ok, audit_ok, handlerCatch(StoreErrorText))

\* handleRemoveRole: DELETE /rbac/users/:userId/roles/:roleId
handleRemoveRoleResult(req, actor, userId, roleId, lookup_ok, stmt_ok, svc_ok, audit_ok) ==
    LET auth == requirePermissionHandler(env, req, "roles:assign")
        res == IF stmt_ok THEN DeleteUserRole(user_roles, userId, roleId)
               ELSE [ success |-> FALSE, rows |-> user_roles ]
    IN IF auth.status # 0 THEN ApiEarly(auth, FALSE)
       ELSE IF userId = 0 THEN ApiEarly(ErrorResponse("Invalid user ID", 400), FALSE)
       ELSE IF roleId = "" THEN ApiEarly(ErrorResponse("Invalid role ID", 400), FALSE)
       ELSE IF ~lookup_ok THEN ApiEarly(handlerCatch(StoreErrorText), TRUE)
       ELSE IF ~res.success
            THEN StatementFailed(userId, RoleRemovedRow(actor, userId, roleId),
                                 handlerCatch("Failed to remove role from user"))
            ELSE AfterStatement(200, res.rows, roles, userId,
                                RoleRemovedRow(actor, userId, roleId),
                                actor \in users /\ userId \in users /\ roleId \in roles,
                                svc_ok, audit_ok, handlerCatch(StoreErrorText))

\* handleCreateRole: POST /rbac/roles.  The actor is looked up after createRole;
\* a failure of that lookup, like any failure other than the one whose message
\* is DUPLICATE_ROLE_NAME, is answered 500.
handleCreateRoleResult(req, actor, name, stmt_ok, actor_ok, audit_ok) ==
    LET auth == requirePermissionHandler(env, req, "roles:write")
        res == createRole(roles, name, stmt_ok)
        audit == logAuditEvent(audit_logs, RoleCreatedRow(actor, name), audit_ok)
        created == ApiResult(201, user_roles, res.roles, cache, audit_logs,
                             << "store_ok" >>, FALSE, FALSE)
        logged == ApiResult(201, user_roles, res.roles, cache, audit.logs,
                            << "store_ok",
                               IF audit_ok THEN "audit_ok" ELSE "audit_fail" >>,
                            FALSE, FALSE)
    IN IF auth.status # 0 THEN ApiEarly(auth, FALSE)
       ELSE IF name = "" THEN ApiEarly(ErrorResponse("Role name is required", 400), FALSE)
       ELSE IF validateRoleName(name) # None
            THEN ApiEarly(ErrorResponse(validateRoleName(name), 400), FALSE)
       ELSE IF ~res.ok
            THEN Answer(ApiResult(0, user_roles, res.roles, cache, audit_logs,
                                  << IF stmt_ok THEN "store_conflict" ELSE "store_fail" >>,
                                  ~stmt_ok, FALSE),
                        handleCreateRoleCatch(res.error))
       ELSE IF ~actor_ok
            THEN Answer([ created EXCEPT !.dbFault = TRUE ],
                        handleCreateRoleCatch(StoreErrorText))
       ELSE IF actor \notin users THEN created
       ELSE IF audit.threw THEN Answer(logged, handleCreateRoleCatch(StoreErrorText))
       ELSE logged

\* The route of the router: if (!env.RBAC_ENABLED || env.RBAC_ENABLED !== 'true')
\* it answers 403 'RBAC is not enabled', else it calls the handler.
rbacRoute(e, out) ==
    IF ~getRbacEnabled(e) THEN ApiEarly(ErrorResponse("RBAC is not enabled", 403), FALSE)
    ELSE out

\* The request has gone through its route: the Store and the Cache are as the
\* handler left them.
ApiApply(op, req, userId, roleId, handled) ==
    \E out \in { rbacRoute(env, handled) } :
      /\ user_roles' = out.user_roles
      /\ roles' = out.roles
      /\ cache' = out.cache
      /\ audit_logs' = out.audit_logs
      /\ mutated' = IF op # "handleCreateRole" /\ Includes(out.effects, "store_ok")
                       /\ userId \in Users
                    THEN mutated \cup { userId } ELSE mutated
      /\ event' = [ Ev(op, userId, roleId, out.status \in { 200, 201 }, out.dbFault,
                       out.svcFault, FALSE, << out.error >>, user_roles, out.effects)
                      EXCEPT !.status = out.status, !.args = << req >> ]
      /\ UNCHANGED << extVars, env, users, now, mut, bootVars, mw >>

handleAssignRole(req, actor, userId, roleId) ==
    /\ Len(audit_logs) < MaxAudit
    /\ \E f \in AssignFaults :
         ApiApply("handleAssignRole", req, userId, roleId,
                  handleAssignRoleResult(req, actor, userId, roleId, f.fail # "lookup",
                                         f.fail # "statement", f.svc_ok,
                                         f.fail # "audit"))

handleRemoveRole(req, actor, userId, roleId) ==
    /\ Len(audit_logs) < MaxAudit
    /\ \E f \in AssignFaults :
         ApiApply("handleRemoveRole", req, userId, roleId,
                  handleRemoveRoleResult(req, actor, userId, roleId, f.fail # "lookup",
                                         f.fail # "statement", f.svc_ok,
                                         f.fail # "audit"))

handleCreateRole(req, actor, name) ==
    /\ Len(audit_logs) < MaxAudit
    /\ \E fail \in CreateFailPoints :
         ApiApply("handleCreateRole", req, 0, name,
                  handleCreateRoleResult(req, actor, name, fail # "statement",
                                         fail # "actor", fail # "audit"))

(***************************************************************************)
(* The mutation handlers of one deployment with RBAC enabled, every user   *)
(* registered and the two seeded roles.                                    *)
(***************************************************************************)
NextApi ==
    \/ \E req \in ApiRequests, actor \in ApiActors, userId \in ApiUserIds,
          roleId \in ApiRoleIds : handleAssignRole(req, actor, userId, roleId)
    \/ \E req \in ApiRequests, actor \in ApiActors, userId \in ApiUserIds,
          roleId \in ApiRoleIds : handleRemoveRole(req, actor, userId, roleId)
    \/ \E req \in ApiRequests, actor \in ApiActors, name \in ApiRoleNames :
         handleCreateRole(req, actor, name)

(***************************************************************************)
(* GET /rbac/audit-logs: handleGetAuditLogs (handlers/rbac.ts) and          *)
(* getAuditLogs (rbac/audit.ts), for the startDate, endDate, limit and     *)
(* offset parameters.                                                      *)
(***************************************************************************)
Min(a, b) == IF a <= b THEN a ELSE b

Max(a, b) == IF a >= b THEN a ELSE b

\* A startDate or endDate parameter: absent, not a date, or a date.
DateParams ==
    { [ given |-> FALSE, valid |-> FALSE, t |-> 0 ],
      [ given |-> TRUE, valid |-> FALSE, t |-> 0 ] }
    \cup { [ given |-> TRUE, valid |-> TRUE, t |-> t ] : t \in { 1, 2 } }

\* A limit or offset parameter: absent, not a string of digits ("abc", "-5"),
\* or a string of digits.
NumberParam(n) == [ given |-> TRUE, digits |-> TRUE, n |-> n ]

NoNumberParam == [ given |-> FALSE, digits |-> FALSE, n |-> 0 ]

LimitParams ==
    { NoNumberParam, [ given |-> TRUE, digits |-> FALSE, n |-> 0 ] }
    \cup { NumberParam(n) :
             n \in { 0, 2, AUDIT_MAX_LIMIT, AUDIT_MAX_LIMIT + 1, 5 * AUDIT_MAX_LIMIT } }

OffsetParams == { NoNumberParam, NumberParam(1) }

\* The sizes of audit_logs the queries are made on: more rows than
\* AUDIT_MAX_LIMIT in the largest.
AuditTableSizes == { 0, 3, AUDIT_MAX_LIMIT + 2 }

\* audit_logs after n events: the first half written at time 1, the rest at 2.
AuditTable(n) ==
    [ i \in 1..n |->
        [ action |-> "ROLE_ASSIGNED", actorUsername |-> Username(AdminUser),
          targetType |-> "USER", targetId |-> "2", details |-> MEMBER,
          success |-> TRUE, timestamp |-> IF 2 * i <= n THEN 1 ELSE 2 ] ]

\* A bug: the date range is not validated.
DateRangeInvalid_Unchecked(startDate, endDate) == FALSE

\* queryParams.startDate && queryParams.endDate &&
\* queryParams.startDate > queryParams.endDate; a parameter that is not a date
\* is left out of queryParams.
DateRangeInvalid(startDate, endDate) ==
    /\ startDate.given /\ startDate.valid
    /\ endDate.given /\ endDate.valid
    /\ startDate.t > endDate.t

\* A bug: the limit of the request is passed on as it is.
ParseLimit_NoCap(limit) ==
    IF limit.given /\ limit.digits THEN NumberParam(limit.n) ELSE NoNumberParam

\* if (limit && /^\d+$/.test(limit))
\*     queryParams.limit = Math.min(parseInt(limit, 10), 1000)
ParseLimit(limit) ==
    IF limit.given /\ limit.digits
    THEN NumberParam(Min(limit.n, AUDIT_MAX_LIMIT))
    ELSE NoNumberParam

\* if (offset && /^\d+$/.test(offset)) queryParams.offset = parseInt(offset, 10)
ParseOffset(offset) ==
    IF offset.given /\ offset.digits THEN NumberParam(offset.n) ELSE NoNumberParam

\* getAuditLogs(env, params): WHERE timestamp >= ? AND timestamp <= ? ORDER BY
\* timestamp DESC LIMIT ? OFFSET ?.  The rows of logs are in the order of their
\* timestamps, so the rows of a range are those from lo to hi.
getAuditLogs(logs, startDate, endDate, limit, offset) ==
    LET lo == IF startDate.given /\ startDate.valid
              THEN 1 + Cardinality({ i \in 1..Len(logs) : logs[i].timestamp < startDate.t })
              ELSE 1
        hi == IF endDate.given /\ endDate.valid
              THEN Cardinality({ i \in 1..Len(logs) : logs[i].timestamp <= endDate.t })
              ELSE Len(logs)
        lim == IF limit.given THEN limit.n ELSE AUDIT_DEFAULT_LIMIT
        off == IF offset.given THEN offset.n ELSE 0
        count == Min(lim, Max(0, hi - lo + 1 - off))
    IN [ k \in 1..count |-> logs[hi - off - k + 1] ]

\* handleGetAuditLogs: GET /rbac/audit-logs
handleGetAuditLogsResult(req, startDate, endDate, limit, offset, db_ok) ==
    LET auth == requirePermissionHandler(env, req, ADMIN_ALL)
    IN IF auth.status # 0
       THEN [ status |-> auth.status, logs |-> << >>, effects |-> << >> ]
       ELSE IF DateRangeInvalid(startDate, endDate)
       THEN [ status |-> 400, logs |-> << >>, effects |-> << >> ]
       ELSE IF ~db_ok
       THEN [ status |-> 500, logs |-> << >>, effects |-> << "query_fail" >> ]
       ELSE [ status |-> 200,
              logs |-> getAuditLogs(audit_logs, startDate, endDate, ParseLimit(limit),
                                    ParseOffset(offset)),
              effects |-> << "query_ok" >> ]

\* A query leaves the Store as it is, so a second query would see what the first
\* one saw: each behaviour is followed for one query.
handleGetAuditLogs(req, startDate, endDate, limit, offset) ==
    /\ event = NoEvent
    /\ \E db_ok \in BOOLEAN :
         LET out == handleGetAuditLogsResult(req, startDate, endDate, limit, offset,
                                             db_ok)
         IN event' = [ Ev("handleGetAuditLogs", 0, "", out.status = 200,
                          Includes(out.effects, "query_fail"), FALSE, FALSE, out.logs,
                          {}, out.effects)
                         EXCEPT !.status = out.status,
                                !.args = << startDate, endDate, limit, offset >> ]
    /\ UNCHANGED << extVars, env, storeVars, cache, now, mut, mutated, bootVars, mw >>

(***************************************************************************)
(* The role manager, the resolver and the cache of one deployment with     *)
(* RBAC enabled, every user registered and the two seeded roles.           *)
(***************************************************************************)
Init ==
    /\ env = [ RBAC_ENABLED |-> "true", SUPER_ADMIN_EMAIL |-> AdminEmail ]
    /\ users = Users
    /\ roles = SeededRoles
    /\ user_roles = {}
    /\ audit_logs = << >>
    /\ cache = [ u \in Users |-> NoEntry ]
    /\ now = 0
    /\ mut = NoCall
    /\ mutated = {}
    /\ event = NoEvent
    /\ boot = [ w \in Workers |-> NoBoot ]
    /\ bootstrapCompleted = [ w \in Workers |-> FALSE ]
    /\ bootLog = << >>
    /\ mw = NoMw
    /\ InitExt

Next ==
    \/ \E u \in Users, r \in RoleIds : assignRole(u, r)
    \/ \E u \in Users, r \in RoleIds : removeRole(u, r)
    \/ invalidateCachedPermissions
    \/ \E u \in Users : resolve(u)
    \/ \E u \in Users, perms \in CachePermChoices :
         setCachedPermissions(u, perms, CACHE_TTL_SECONDS)
    \/ \E u \in Users : getCachedPermissions(u)

Spec == Init /\ [][Next]_vars

(***************************************************************************)
(* The resolver on every content of user_roles, with the MODERATOR role of *)
(* the test fixtures beside the seeded ones.                               *)
(***************************************************************************)
InitResolve ==
    /\ env = [ RBAC_ENABLED |-> "true", SUPER_ADMIN_EMAIL |-> AdminEmail ]
    /\ users = Users
    /\ roles = RoleIds
    /\ user_roles \in SUBSET (Users \X RoleIds)
    /\ audit_logs = << >>
    /\ cache = [ u \in Users |-> NoEntry ]
    /\ now = 0
    /\ mut = NoCall
    /\ mutated = {}
    /\ event = NoEvent
    /\ boot = [ w \in Workers |-> NoBoot ]
    /\ bootstrapCompleted = [ w \in Workers |-> FALSE ]
    /\ bootLog = << >>
    /\ mw = NoMw
    /\ InitExt

NextResolve == \E u \in Users : resolve(u)

SpecResolve == InitResolve /\ [][NextResolve]_vars

(***************************************************************************)
(* The cache over time: one registered user, entries written with the      *)
(* default and with a caller-supplied ttl, role mutations whose            *)
(* invalidation may fail.                                                  *)
(***************************************************************************)
InitCache ==
    /\ env = [ RBAC_ENABLED |-> "true", SUPER_ADMIN_EMAIL |-> AdminEmail ]
    /\ users = { AdminUser }
    /\ roles = SeededRoles
    /\ user_roles = {}
    /\ audit_logs = << >>
    /\ cache = [ u \in Users |-> NoEntry ]
    /\ now = 0
    /\ mut = NoCall
    /\ mutated = {}
    /\ event = NoEvent
    /\ boot = [ w \in Workers |-> NoBoot ]
    /\ bootstrapCompleted = [ w \in Workers |-> FALSE ]
    /\ bootLog = << >>
    /\ mw = NoMw
    /\ InitExt

NextCache ==
    \/ \E u \in users : assignRole(u, SUPER_ADMIN)
    \/ \E u \in users : removeRole(u, SUPER_ADMIN)
    \/ invalidateCachedPermissions
    \/ \E u \in users : resolve(u)
    \/ \E u \in users, perms \in CachePermChoices, ttl \in { CACHE_TTL_SECONDS, CustomTtl } :
         setCachedPermissions(u, perms, ttl)
    \/ \E u \in users : getCachedPermissions(u)
    \/ Tick

SpecCache == InitCache /\ [][NextCache]_vars

(***************************************************************************)
(* The bootstrap on the worker instances of one deployment: every          *)
(* configuration, the SUPER_ADMIN role seeded or not, users registered     *)
(* before the deployment or later.                                         *)
(***************************************************************************)
InitBoot ==
    /\ env \in [ RBAC_ENABLED : { "true", "false" },
                 SUPER_ADMIN_EMAIL : { None, AdminEmail } ]
    /\ users \in SUBSET Users
    /\ roles \in { SeededRoles, { MEMBER } }
    /\ user_roles = {}
    /\ audit_logs = << >>
    /\ cache = [ u \in Users |-> NoEntry ]
    /\ now = 0
    /\ mut = NoCall
    /\ mutated = {}
    /\ event = NoEvent
    /\ boot = [ w \in Workers |-> NoBoot ]
    /\ bootstrapCompleted = [ w \in Workers |-> FALSE ]
    /\ bootLog = << >>
    /\ mw = NoMw
    /\ InitExt

NextBoot ==
    \/ \E w \in Workers : bootstrapMiddleware(w)
    \/ \E w \in Workers : bootstrapSuperAdmin(w)
    \/ \E w \in Workers, u \in Users : handleRegister(w, u)

SpecBoot == InitBoot /\ [][NextBoot]_vars

\* Every worker instance gets requests, every await of a bootstrap call
\* returns, and whoever is not yet registered registers.
FairSpecBoot ==
    /\ InitBoot /\ [][NextBoot]_vars
    /\ \A w \in Workers : WF_vars(bootstrapMiddleware(w))
    /\ \A w \in Workers : WF_vars(bootstrapSuperAdmin(w))
    /\ WF_vars(\E w \in Workers, u \in Users : handleRegister(w, u))

InitApi ==
    /\ env \in [ RBAC_ENABLED : RbacEnabledValues, SUPER_ADMIN_EMAIL : { AdminEmail } ]
    /\ users = Users
    /\ roles = SeededRoles
    /\ user_roles = {}
    /\ audit_logs = << >>
    /\ cache = [ u \in Users |-> NoEntry ]
    /\ now = 0
    /\ mut = NoCall
    /\ mutated = {}
    /\ event = NoEvent
    /\ boot = [ w \in Workers |-> NoBoot ]
    /\ bootstrapCompleted = [ w \in Workers |-> FALSE ]
    /\ bootLog = << >>
    /\ mw = NoMw
    /\ InitExt

SpecApi == InitApi /\ [][NextApi]_vars

(***************************************************************************)
(* Audit queries on a deployment with RBAC enabled whose audit_logs holds  *)
(* the rows of earlier events.                                             *)
(***************************************************************************)
InitAudit ==
    /\ env = [ RBAC_ENABLED |-> "true", SUPER_ADMIN_EMAIL |-> AdminEmail ]
    /\ users = Users
    /\ roles = SeededRoles
    /\ user_roles = {}
    /\ audit_logs \in { AuditTable(n) : n \in AuditTableSizes }
    /\ cache = [ u \in Users |-> NoEntry ]
    /\ now = 0
    /\ mut = NoCall
    /\ mutated = {}
    /\ event = NoEvent
    /\ boot = [ w \in Workers |-> NoBoot ]
    /\ bootstrapCompleted = [ w \in Workers |-> FALSE ]
    /\ bootLog = << >>
    /\ mw = NoMw
    /\ InitExt

NextAudit ==
    \E req \in ApiRequests, startDate \in DateParams, endDate \in DateParams,
       limit \in LimitParams, offset \in OffsetParams :
      handleGetAuditLogs(req, startDate, endDate, limit, offset)

SpecAudit == InitAudit /\ [][NextAudit]_vars

(***************************************************************************)
(* hasPermission on every permission array of CheckPermChoices and every   *)
(* permission name.                                                        *)
(***************************************************************************)
NextCheck ==
    \E permissions \in CheckPermChoices, required \in Range(PermissionNames) :
        checkPermission(permissions, required)

SpecCheck == Init /\ [][NextCheck]_vars

(***************************************************************************)
(* What the Store grants, stated without the query.                        *)
(***************************************************************************)
\* The roles bound to u.
BoundRoles(ur, u) == { r \in RoleIds : << u, r >> \in ur }

\* Every permission some role bound to u grants.
GrantedPermissions(ur, u) == UNION { RolePermissions(r) : r \in BoundRoles(ur, u) }

\* The effective permission set: the union, collapsed to admin:all when present.
EffectivePermissions(ur, u) ==
    IF ADMIN_ALL \in GrantedPermissions(ur, u) THEN { ADMIN_ALL }
    ELSE GrantedPermissions(ur, u)

IsRoleMutation(e) == e.op \in { "assignRole", "removeRole" }

(***************************************************************************)
(* C1: a resolve for a user whose role mutation has returned successfully  *)
(* returns the permission set of the Store as it then is, also when an     *)
(* entry written to the cache before the mutation is still there.          *)
(***************************************************************************)
C1_ResolveReflectsStore ==
    (event.op = "resolve" /\ event.ok /\ event.user \in mutated)
        => Range(event.ret) = EffectivePermissions(user_roles, event.user)

\* A resolve after a mutation whose invalidation left a differing entry behind.
C1_Witness ==
    /\ event.op = "resolve" /\ event.ok /\ event.user \in mutated
    /\ mut = NoCall
    /\ cache[event.user].present /\ cache[event.user].pre
    /\ Range(cache[event.user].perms) # Range(event.ret)

(***************************************************************************)
(* C4: in a role mutation call the cache invalidation is issued only after *)
(* the Store statement of that call has succeeded, never before it and     *)
(* never after a failed statement.                                         *)
(***************************************************************************)
IsInvalidation(x) == x \in { "invalidate_ok", "invalidate_fail" }

StoreThenInvalidate(effs) ==
    \A i \in 1..Len(effs) :
        IsInvalidation(effs[i]) => \E j \in 1..(i - 1) : effs[j] = "store_ok"

C4_StoreBeforeInvalidate ==
    /\ mut # NoCall => StoreThenInvalidate(mut.effects)
    /\ IsRoleMutation(event) => StoreThenInvalidate(event.effects)

\* A removeRole of an existing binding has run its statement, then its invalidation.
C4_Witness ==
    /\ event.op = "removeRole"
    /\ event.effects = << "store_ok", "invalidate_ok" >>
    /\ << event.user, event.role >> \in event.before

(***************************************************************************)
(* C8: assignRole on a binding that already exists (a second call with the *)
(* same userId and roleId) does not throw and leaves exactly one row for   *)
(* the pair, whenever the Store executes the statement.                    *)
(***************************************************************************)
BindingCount(ur, u, r) == Cardinality({ b \in ur : b = << u, r >> })

C8_AssignRoleIdempotent ==
    (event.op = "assignRole" /\ << event.user, event.role >> \in event.before
        /\ ~event.dbFault)
        => /\ event.ok
           /\ BindingCount(user_roles, event.user, event.role) = 1
           /\ user_roles = event.before

C8_Witness ==
    /\ event.op = "assignRole" /\ event.ok
    /\ << event.user, event.role >> \in event.before

(***************************************************************************)
(* C9: removeRole on a binding that does not exist succeeds and leaves     *)
(* user_roles as it was, whenever the Store executes the statement.        *)
(***************************************************************************)
C9_RemoveRoleIdempotent ==
    (event.op = "removeRole" /\ << event.user, event.role >> \notin event.before
        /\ ~event.dbFault)
        => /\ event.ok
           /\ user_roles = event.before

C9_Witness ==
    /\ event.op = "removeRole" /\ event.ok
    /\ << event.user, event.role >> \notin event.before
    /\ event.before # {}

(***************************************************************************)
(* C10: for a user holding a role that grants admin:all the resolver       *)
(* returns the one-element array [admin:all], and it never returns         *)
(* admin:all beside another permission.                                    *)
(***************************************************************************)
C10_AdminAllAlone ==
    (event.op = "resolve" /\ event.ok)
        => /\ ADMIN_ALL \in GrantedPermissions(user_roles, event.user)
                => event.ret = << ADMIN_ALL >>
           /\ Includes(event.ret, ADMIN_ALL) => Len(event.ret) = 1

\* A super admin who also holds the MODERATOR role.
C10_Witness ==
    /\ event.op = "resolve" /\ event.ok
    /\ { SUPER_ADMIN, MODERATOR } \subseteq BoundRoles(user_roles, event.user)
    /\ event.ret = << ADMIN_ALL >>

(***************************************************************************)
(* C2, as stated: with RBAC not enabled, a request to a route gated by the *)
(* middleware requirePermission(p) is denied and does not continue.        *)
(***************************************************************************)
C2_Original_FailsClosed ==
    (mw.kind = "requirePermission" /\ mw.rbac # "true") => mw.status \in { 401, 403 }

(***************************************************************************)
(* C2, amended: with RBAC not enabled the middleware requirePermission(p)  *)
(* short-circuits to allow, the request continues; it is the gate of the   *)
(* /rbac management routes that fails closed, with a 403.                  *)
(***************************************************************************)
C2_FailsClosedOnlyInHandlerGate ==
    /\ (mw.kind = "requirePermission" /\ mw.rbac # "true") => mw.status = 0
    /\ (mw.kind = "handlerRequirePermission" /\ mw.rbac # "true") => mw.status = 403

\* With RBAC off, a request whose session lacks the permission has passed the
\* middleware requirePermission.
C2_Witness ==
    /\ mw.kind = "requirePermission" /\ mw.rbac = "false"
    /\ mw.request.session = "valid"
    /\ ~hasPermission(UserPermissions(mw.request), mw.required[1])
    /\ mw.status = 0

(***************************************************************************)
(* C3: with RBAC_ENABLED not enabled, requirePermission,                   *)
(* requireAnyPermission and requireAllPermissions return no response,      *)
(* whatever session the request has and whatever permissions it carries.   *)
(***************************************************************************)
PermissionMiddlewares ==
    { "requirePermission", "requireAnyPermission", "requireAllPermissions" }

C3_DisabledLetsThrough ==
    (mw.kind \in PermissionMiddlewares /\ mw.rbac # "true") => mw.status = 0

\* A request without a session has passed requireAllPermissions with RBAC off.
C3_Witness ==
    /\ mw.kind = "requireAllPermissions" /\ mw.rbac = "false"
    /\ mw.request.session = "none"
    /\ mw.status = 0

(***************************************************************************)
(* C5: no resolve returns a cached permission set, however old (it returns *)
(* what the Store grants), and a read of the cache never finds an entry    *)
(* written with the default ttl CACHE_TTL_SECONDS seconds or more ago,     *)
(* also when the entry survived a mutation whose invalidation failed.      *)
(***************************************************************************)
EntryAge(u) == now - cache[u].writtenAt

BootstrapAuditCount(u) ==
    Cardinality({ i \in 1..Len(audit_logs) :
                    /\ audit_logs[i].action = "BOOTSTRAP_SUPER_ADMIN"
                    /\ audit_logs[i].targetId = ToString(u) })

RanInSequence ==
    /\ Len(bootLog) >= 2
    /\ \A w \in Workers : boot[w].pc = "none"
    /\ \A i \in 1..Len(bootLog) : bootLog[i].startedAfter = i - 1

C6_BootstrapTwiceOnce ==
    (/\ RanInSequence
     /\ bootLog[Len(bootLog)].applicable
     /\ \A i \in 1..Len(bootLog) : ~bootLog[i].fault)
        => /\ BindingCount(user_roles, AdminUser, SUPER_ADMIN) = 1
           /\ BootstrapAuditCount(AdminUser) = 1

\* The first call assigned the role, the second found it assigned.
C6_Witness ==
    /\ RanInSequence
    /\ bootLog[1].applicable /\ bootLog[1].outcome = "assigned" /\ ~bootLog[1].fault
    /\ bootLog[2].outcome = "already" /\ ~bootLog[2].fault
    /\ << AdminUser, SUPER_ADMIN >> \in user_roles
    /\ BootstrapAuditCount(AdminUser) = 1

(***************************************************************************)
(* C7: with SUPER_ADMIN_EMAIL configured and RBAC enabled, once the user   *)
(* with that email is registered and the SUPER_ADMIN role is seeded, the   *)
(* binding of that user to SUPER_ADMIN eventually exists.                  *)
(***************************************************************************)
BootstrapApplies ==
    /\ getRbacEnabled(env)
    /\ getSuperAdminEmail(env) # None
    /\ FindUserByUsername(users, getSuperAdminEmail(env)) # {}
    /\ SUPER_ADMIN \in roles

C7_EventuallySuperAdmin ==
    BootstrapApplies ~> (<< AdminUser, SUPER_ADMIN >> \in user_roles)

\* The same, leaving aside the runs in which a Store statement of a bootstrap
\* call failed: the binding is missed without any fault, too.
C7_EventuallySuperAdminUnlessFault ==
    BootstrapApplies
        ~> (\/ << AdminUser, SUPER_ADMIN >> \in user_roles
            \/ \E i \in 1..Len(bootLog) : bootLog[i].fault)

(***************************************************************************)
(* C11: for a user none of whose roles grants admin:all the resolver       *)
(* returns the permissions of the roles bound to the user, each exactly    *)
(* once, and the empty array for a user with no binding.                   *)
(***************************************************************************)
NoDuplicates(seq) == \A i, j \in 1..Len(seq) : seq[i] = seq[j] => i = j

C11_UnionWithoutDuplicates ==
    (event.op = "resolve" /\ event.ok
        /\ ADMIN_ALL \notin GrantedPermissions(user_roles, event.user))
        => /\ Range(event.ret) = GrantedPermissions(user_roles, event.user)
           /\ NoDuplicates(event.ret)
           /\ BoundRoles(user_roles, event.user) = {} => event.ret = << >>

\* MEMBER and MODERATOR both grant users:read; it is returned once.
C11_Witness ==
    /\ event.op = "resolve" /\ event.ok
    /\ BoundRoles(user_roles, event.user) = { MEMBER, MODERATOR }
    /\ Len(event.ret) = 3

(***************************************************************************)
(* C12: hasPermission(permissions, required) returns true exactly when     *)
(* required or admin:all is an element of permissions; for the empty array *)
(* it returns false.                                                       *)
(***************************************************************************)
C12_CheckIffMemberOrAdmin ==
    event.op = "hasPermission"
        => /\ event.hit <=> (\/ event.role \in Range(event.ret)
                             \/ ADMIN_ALL \in Range(event.ret))
           /\ event.ret = << >> => ~event.hit

\* admin:all alone answers for a permission that is not in the array.
C12_Witness ==
    /\ event.op = "hasPermission"
    /\ event.ret = << ADMIN_ALL >> /\ event.role = "users:delete"
    /\ event.hit

(***************************************************************************)
(* C13: with RBAC enabled, each of requirePermission, requireAnyPermission *)
(* and requireAllPermissions answers a request without a session with 401, *)
(* a request whose session fails the gate's predicate with 403, and a      *)
(* request whose session passes it with no response.                       *)
(***************************************************************************)
\* check(permissions, required), stated on the set of the session's permissions.
Holds(req, p) ==
    LET held == IF req.hasPermissions THEN Range(req.permissions) ELSE {}
    IN p \in held \/ ADMIN_ALL \in held

\* The predicate of the gate of a recorded call.
GatePredicate(m) ==
    IF m.kind = "requireAnyPermission"
    THEN \E p \in Range(m.required) : Holds(m.request, p)
    ELSE \A p \in Range(m.required) : Holds(m.request, p)

C13_MiddlewareStates ==
    (mw.kind \in PermissionMiddlewares /\ mw.rbac = "true")
        => /\ mw.request.session # "valid" => mw.status = 401
           /\ (mw.request.session = "valid" /\ ~GatePredicate(mw)) => mw.status = 403
           /\ (mw.request.session = "valid" /\ GatePredicate(mw)) => mw.status = 0

\* A request without a session is answered 401 by requireAnyPermission.
C13_Witness ==
    /\ mw.kind = "requireAnyPermission" /\ mw.rbac = "true"
    /\ mw.request.session = "none"
    /\ mw.status = 401

(***************************************************************************)
(* C14: with RBAC enabled, a request whose session has no permissions      *)
(* field and that reaches a permission gate (a permission middleware, the  *)
(* gate of the /rbac handlers, or the roles:read check of                  *)
(* handleGetUserRoles for another user's roles) is answered 401 or 403.    *)
(***************************************************************************)
PermissionGates ==
    PermissionMiddlewares \cup { "handlerRequirePermission", "handleGetUserRoles" }

C14_NoPermissionsFieldDenied ==
    (/\ mw.kind \in PermissionGates /\ mw.rbac = "true"
     /\ mw.request.session = "valid" /\ ~mw.request.hasPermissions
     /\ ~mw.own
     /\ mw.status \notin { 400, 404, 500 })
        => mw.status \in { 401, 403 }

(***************************************************************************)
(* C15: with RBAC enabled and a session attached, requireAllPermissions(ps)*)
(* lets the request continue only if check succeeds for every permission   *)
(* of ps, and answers 403 if check fails for any of them.                  *)
(***************************************************************************)
C15_AllRequired ==
    (mw.kind = "requireAllPermissions" /\ mw.rbac = "true"
        /\ mw.request.session = "valid")
        => /\ mw.status = 0 => \A p \in Range(mw.required) : Holds(mw.request, p)
           /\ (\E p \in Range(mw.required) : ~Holds(mw.request, p)) => mw.status = 403

\* A session holding one of the two required permissions is answered 403.
C15_Witness ==
    /\ mw.kind = "requireAllPermissions" /\ mw.rbac = "true"
    /\ mw.request.permissions = << "users:read" >>
    /\ mw.required = << "users:read", "users:write" >>
    /\ mw.status = 403

C17_AnySuffices ==
    (mw.kind = "requireAnyPermission" /\ mw.rbac = "true"
        /\ mw.request.session = "valid")
        => /\ mw.status = 0 <=> \E p \in Range(mw.required) : Holds(mw.request, p)
           /\ mw.status \in { 0, 403 }

\* roles:read held, roles:read or roles:assign required: the request continues.
C17_Witness ==
    /\ mw.kind = "requireAnyPermission" /\ mw.rbac = "true"
    /\ mw.request.permissions = << "roles:read" >>
    /\ mw.required = << "roles:read", "roles:assign" >>
    /\ mw.status = 0

IsApiMutation ==
    event.op \in { "handleAssignRole", "handleRemoveRole", "handleCreateRole" }

\* The mutation of the last request is in the Store.
MutationApplied ==
    CASE event.op = "handleAssignRole" -> << event.user, event.role >> \in user_roles
      [] event.op = "handleRemoveRole" -> << event.user, event.role >> \notin user_roles
      [] event.op = "handleCreateRole" -> event.role \in roles
      [] OTHER -> FALSE

\* The audit row that describes the mutation of the last request.
DescribingRow ==
    CASE event.op = "handleAssignRole" ->
           AuditRow("ROLE_ASSIGNED", Username(AdminUser), "USER", ToString(event.user),
                    event.role)
      [] event.op = "handleRemoveRole" ->
           AuditRow("ROLE_REMOVED", Username(AdminUser), "USER", ToString(event.user),
                    event.role)
      [] OTHER ->
           AuditRow("ROLE_CREATED", Username(AdminUser), "ROLE", event.role, "")

\* C19: when the INSERT of the audit row fails, the assignment, removal or
\* creation it was recording is still answered with success (200, 201 for a
\* creation) and its mutation is in the Store: the failure of the append
\* never reaches the handler.
C19_AuditFailureDoesNotAbort ==
    (IsApiMutation /\ Includes(event.effects, "audit_fail"))
        => /\ event.status = (IF event.op = "handleCreateRole" THEN 201 ELSE 200)
           /\ event.ok
           /\ Includes(event.effects, "store_ok")
           /\ MutationApplied

\* An assignment whose audit INSERT failed: answered 200, the binding stored,
\* no audit row written.
C19_Witness ==
    /\ event.op = "handleAssignRole"
    /\ Includes(event.effects, "audit_fail")
    /\ event.status = 200
    /\ << event.user, event.role >> \in user_roles
    /\ << event.user, event.role >> \notin event.before
    /\ audit_logs = << >>

\* C20: every assignment, removal and creation that a handler applied to the
\* Store, for a user and a role that exist, is followed by the audit row that
\* describes it, unless the INSERT of that row failed.
C20_MutationIsAudited ==
    (/\ IsApiMutation
     /\ Includes(event.effects, "store_ok")
     /\ ~Includes(event.effects, "audit_fail")
     /\ event.op # "handleCreateRole" => (event.user \in users /\ event.role \in roles))
        => /\ Len(audit_logs) > 0
           /\ audit_logs[Len(audit_logs)] = DescribingRow

\* The same for the requests during which the Store answered every query but,
\* possibly, the audit INSERT: these are all audited.
C20_AuditedWhenStoreAnswers ==
    (/\ IsApiMutation
     /\ Includes(event.effects, "store_ok")
     /\ ~Includes(event.effects, "audit_fail")
     /\ ~event.dbFault
     /\ event.op # "handleCreateRole" => (event.user \in users /\ event.role \in roles))
        => /\ Len(audit_logs) > 0
           /\ audit_logs[Len(audit_logs)] = DescribingRow

(***************************************************************************)
(* C21: a role name that is already in roles (SpecApi).                    *)
(***************************************************************************)
\* C21: a creation whose INSERT hit the UNIQUE constraint on roles.name is
\* answered 409, never 500, and roles is as it was.
C21_DuplicateNameIsConflict ==
    (event.op = "handleCreateRole" /\ Includes(event.effects, "store_conflict"))
        => /\ event.status = 409
           /\ event.role \in roles

(***************************************************************************)
(* C22: an error of the Cache on the read path (Spec).                     *)
(***************************************************************************)
\* C22: a read of the Cache that ends in a status other than 200 and 404 or
\* in an exception returns null like a miss and does not throw; resolve
\* returns what the Store holds whenever the Store answers, so no error of
\* the Cache reaches its caller.
C22_CacheErrorIsMiss ==
    /\ (event.op = "getCachedPermissions" /\ event.svcFault)
          => (event.ok /\ ~event.hit /\ event.ret = << >>)
    /\ (event.op = "resolve" /\ ~event.dbFault)
          => (event.ok /\ ~event.svcFault
              /\ event.ret = CollapseAdmin(QueryUserPermissions(user_roles, event.user)))

\* A read that failed while a live entry was in the Cache: answered as a miss.
C22_Witness ==
    /\ event.op = "getCachedPermissions"
    /\ event.svcFault
    /\ event.ok
    /\ ~event.hit
    /\ KvGet(cache, event.user, now).present

(***************************************************************************)
(* C23: a failed invalidation after a stored role mutation (Spec).         *)
(***************************************************************************)
\* C23: when the invalidation that follows the statement of assignRole or
\* removeRole fails, the call still returns successfully and the change of
\* the binding is in user_roles.
C23_InvalidationFailureDoesNotFail ==
    (IsRoleMutation(event) /\ Includes(event.effects, "invalidate_fail"))
        => /\ event.ok
           /\ Includes(event.effects, "store_ok")
           /\ event.op = "assignRole" => << event.user, event.role >> \in user_roles
           /\ event.op = "removeRole" => << event.user, event.role >> \notin user_roles

\* A removal of a binding that was there, its invalidation failed: returned
\* successfully, the binding gone, the cached entry still there.
C23_Witness ==
    /\ event.op = "removeRole"
    /\ Includes(event.effects, "invalidate_fail")
    /\ event.ok
    /\ << event.user, event.role >> \in event.before
    /\ << event.user, event.role >> \notin user_roles
    /\ cache[event.user].present

(***************************************************************************)
(* C24: failures inside bootstrapSuperAdmin (SpecBoot).                    *)
(***************************************************************************)
\* C24: no call of bootstrapSuperAdmin throws to bootstrapMiddleware, whatever
\* query, statement, invalidation or audit INSERT failed inside it, and the
\* request that started the call goes on to its handler.
C24_BootstrapNeverThrows ==
    \A i \in 1..Len(bootLog) : ~bootLog[i].threw /\ bootLog[i].continued

\* A call that ended in its catch block after a failed statement, and a call
\* whose audit INSERT failed after the role was assigned.
C24_Witness ==
    /\ \E i \in 1..Len(bootLog) :
         bootLog[i].outcome = "error" /\ bootLog[i].fault /\ ~bootLog[i].threw
    /\ \E i \in 1..Len(bootLog) :
         bootLog[i].outcome = "assigned" /\ bootLog[i].fault /\ bootLog[i].continued

(***************************************************************************)
(* C25, C26: audit queries (SpecAudit).                                    *)
(***************************************************************************)
\* The last request was an audit query with a startDate after its endDate.
ReversedRange ==
    /\ event.op = "handleGetAuditLogs"
    /\ event.args[1].given /\ event.args[1].valid
    /\ event.args[2].given /\ event.args[2].valid
    /\ event.args[1].t > event.args[2].t

C26_PageAtMostMaxLimit ==
    event.op = "handleGetAuditLogs" => Len(event.ret) <= AUDIT_MAX_LIMIT

\* A query with a limit above the cap on a table with more rows than the cap:
\* a page of exactly AUDIT_MAX_LIMIT rows.
C26_Witness ==
    /\ event.op = "handleGetAuditLogs"
    /\ event.args[3].given /\ event.args[3].digits
    /\ event.args[3].n > AUDIT_MAX_LIMIT
    /\ Len(audit_logs) > AUDIT_MAX_LIMIT
    /\ Len(event.ret) = AUDIT_MAX_LIMIT

(***************************************************************************)
(* C27: the default role of a newly registered user (SpecBoot).            *)
(***************************************************************************)
\* C27: with RBAC enabled and the MEMBER role seeded, a user whose
\* registration has been answered 201 holds the binding to MEMBER.
C27_RegisteredHoldsMember ==
    (/\ event.op = "handleRegister"
     /\ event.status = 201
     /\ getRbacEnabled(env)
     /\ MEMBER \in roles)
        => << event.user, MEMBER >> \in user_roles

(***************************************************************************)
(* C28: GET /rbac/users/:userId/roles (SpecMw).                            *)
(***************************************************************************)
\* C28: the roles of a user are returned (200) only to that user and to a
\* requester whose session permissions satisfy roles:read.
C28_RolesOnlyForOwnerOrReader ==
    (mw.kind = "handleGetUserRoles" /\ mw.status = 200)
        => (mw.own \/ Holds(mw.request, "roles:read"))

ClientMessages ==
    { "RBAC is not enabled", "Authentication required", "Invalid session",
      "Insufficient permissions", "Invalid user ID", "Role ID is required",
      "Invalid role ID", "Role name is required",
      "Role name must be at least 2 characters", "User not found", "Role not found",
      "Role with that name already exists", "Internal server error" }

C31_ResolveReadsCacheFirst ==
    (event.op = "resolve")
        => /\ KvGet(cache, event.user, now).present
                => (event.ok /\ event.ret = KvGet(cache, event.user, now).perms)
           /\ event.ok
                => (/\ KvGet(cache, event.user, now).present
                    /\ KvGet(cache, event.user, now).perms = event.ret)

\* The hit alone: a resolve beside a live entry returns the entry.
C31_HitReturnsCached ==
    (event.op = "resolve" /\ KvGet(cache, event.user, now).present)
        => (event.ok /\ event.ret = KvGet(cache, event.user, now).perms)

(***************************************************************************)
(* C32: the calls of bootstrapSuperAdmin that change nothing (SpecBoot).   *)
(***************************************************************************)
\* C32: a call of bootstrapSuperAdmin writes no binding and no audit row when
\* no SUPER_ADMIN_EMAIL is configured, when no user has the configured
\* username, when the user already holds SUPER_ADMIN, or when the SUPER_ADMIN
\* role is not in roles; while no SUPER_ADMIN_EMAIL is configured, while the
\* role is missing, and while no user has the configured username, user_roles
\* and audit_logs are empty and the role is still missing: no call has
\* created a user, a role, a binding or an audit row.
C32_BootstrapNoOpCases ==
    /\ \A i \in 1..Len(bootLog) :
         (\/ bootLog[i].email = None
          \/ bootLog[i].absent
          \/ bootLog[i].held
          \/ SUPER_ADMIN \notin roles)
            => bootLog[i].effects = << >>
    /\ (\/ getSuperAdminEmail(env) = None
        \/ SUPER_ADMIN \notin roles
        \/ \A u \in users : Username(u) # getSuperAdminEmail(env))
            => (user_roles = {} /\ audit_logs = << >>)
    /\ users \subseteq Users
    /\ roles \in { SeededRoles, { MEMBER } }

\* A second call that found the binding of the first and wrote nothing; the
\* first wrote the binding and the audit row.
C32_Witness ==
    /\ Len(bootLog) = 2
    /\ bootLog[1].effects = << "binding", "audit" >>
    /\ bootLog[2].held /\ bootLog[2].outcome = "already"
    /\ bootLog[2].effects = << >>
    /\ Len(audit_logs) = 1

\* A call that found no user under the configured username.
C32_WitnessNoUser ==
    /\ Len(bootLog) >= 1
    /\ bootLog[1].absent /\ bootLog[1].outcome = "no_user"
    /\ user_roles = {} /\ audit_logs = << >>

\* A call that found the user and no SUPER_ADMIN role.
C32_WitnessNoRole ==
    /\ Len(bootLog) >= 1
    /\ bootLog[1].outcome = "no_role" /\ bootLog[1].userId # 0
    /\ user_roles = {} /\ audit_logs = << >>

(***************************************************************************)
(* C33: bootstrapSuperAdmin once per worker instance (SpecBoot).           *)
(***************************************************************************)
\* The calls of bootstrapSuperAdmin worker instance w has made: those that
\* have returned and the one in flight.
BootstrapCalls(w) ==
    Cardinality({ i \in 1..Len(bootLog) : bootLog[i].worker = w })
        + (IF boot[w].pc # "none" THEN 1 ELSE 0)

\* C33: a worker instance calls bootstrapSuperAdmin at most once, whatever
\* requests it receives while the call is in flight and afterwards; it has
\* made the call exactly when its flag is set.
C33_BootstrapOncePerWorker ==
    \A w \in Workers :
        /\ BootstrapCalls(w) <= 1
        /\ bootstrapCompleted[w] <=> BootstrapCalls(w) = 1

\* Every worker instance has its call in flight, none has returned, and one
\* of them has answered a registration meanwhile: a request served while the
\* call of its instance was between two awaits.
C33_Witness ==
    /\ bootLog = << >>
    /\ \A w \in Workers : boot[w].pc # "none" /\ BootstrapCalls(w) = 1
    /\ event.op = "handleRegister"

(***************************************************************************)
(* C34: bindings name existing users and roles (SpecApi).                  *)
(***************************************************************************)
\* The last request was an assignment by a session that holds roles:assign,
\* with a numeric user id, whose lookups the Store answered.
AssignmentLookedUp ==
    /\ event.op = "handleAssignRole"
    /\ env.RBAC_ENABLED = "true"
    /\ event.args[1].session = "valid"
    /\ Holds(event.args[1], "roles:assign")
    /\ event.user # 0
    /\ ~(event.dbFault /\ event.effects = << >>)

\* C34: every row of user_roles names a registered user and a role of roles;
\* an assignment that names a user or a role that does not exist is answered
\* 404, 'User not found' or 'Role not found', and makes no statement:
\* user_roles is as it was before the request.
C34_NoOrphanBinding ==
    /\ \A b \in user_roles : b[1] \in users /\ b[2] \in roles
    /\ (AssignmentLookedUp /\ (event.user \notin users \/ event.role \notin roles))
           => /\ event.status = 404
              /\ event.ret[1] = (IF event.user \notin users THEN "User not found"
                                 ELSE "Role not found")
              /\ event.effects = << >>
              /\ user_roles = event.before

\* An administrator's assignment to the unknown user id, after a binding has
\* been made: 404, and the binding made before is all there is.
C34_Witness ==
    /\ AssignmentLookedUp
    /\ event.user = UnknownUser
    /\ event.status = 404
    /\ user_roles = { << 2, MEMBER >> }

\* An administrator's assignment of a role that is not in roles.
C34_WitnessNoRole ==
    /\ AssignmentLookedUp
    /\ event.user \in users /\ event.role \notin roles
    /\ event.status = 404

(***************************************************************************)
(* The resolver beside a role mutation: getUserPermissions from its query  *)
(* to its return, assignRole / removeRole from the statement to the        *)
(* invalidation, in every order.                                           *)
(***************************************************************************)
\* A bug (the read-through resolver): the array is put under the key of the
\* user with the default ttl before it is returned.
resolveWriteBack_ReadThrough(kv, u, perms, t) ==
    KvPut(kv, u, perms, handleSetCacheTtl(CACHE_TTL_SECONDS), CACHE_TTL_SECONDS, t)

\* What getUserPermissions does to the cache between the answer of its query
\* and its return: nothing, it has no statement that writes to the cache.
resolveWriteBack(kv, u, perms, t) == kv

\* const result = await env.usersDB.prepare(query).bind(userId).all(): the
\* query reads user_roles while the call awaits.
getUserPermissionsQuery(u) ==
    /\ resolving.pc = "idle"
    /\ \E db_ok \in BOOLEAN :
         resolving' = [ pc |-> "awaiting", user |-> u, ok |-> db_ok,
                        perms |-> IF db_ok
                                  THEN getUserPermissions(user_roles,
                                                          LiveCache(cache, now), u)
                                  ELSE << >> ]
    /\ UNCHANGED << env, storeVars, cache, now, mut, mutated, event, bootVars, mw,
                    sessionstore, adding, userRows >>

\* The call resumes: it maps the rows and returns, or rethrows.
getUserPermissionsReturn ==
    /\ resolving.pc = "awaiting"
    /\ cache' = IF resolving.ok
                THEN resolveWriteBack(cache, resolving.user, resolving.perms, now)
                ELSE cache
    /\ event' = Ev("resolve", resolving.user, "", resolving.ok, ~resolving.ok, FALSE,
                   FALSE, resolving.perms, {}, << >>)
    /\ resolving' = [ resolving EXCEPT !.pc = "returned" ]
    /\ UNCHANGED << env, storeVars, now, mut, mutated, bootVars, mw,
                    sessionstore, adding, userRows >>

\* The entry a caller of setCachedPermissions has put for user u from the
\* array resolved on user_roles ur, or no entry.
CachedBefore(ur, u) ==
    { [ v \in Users |-> NoEntry ],
      KvPut([ v \in Users |-> NoEntry ], u,
            getUserPermissions(ur, [ v \in Users |-> NoEntry ], u),
            handleSetCacheTtl(CACHE_TTL_SECONDS), CACHE_TTL_SECONDS, 0) }

\* One user with or without bindings, with or without a cache entry that agrees
\* with them.
InitRace ==
    /\ env = [ RBAC_ENABLED |-> "true", SUPER_ADMIN_EMAIL |-> AdminEmail ]
    /\ users = Users
    /\ roles = RoleIds
    /\ user_roles \in SUBSET ({ AdminUser } \X { SUPER_ADMIN, MEMBER })
    /\ audit_logs = << >>
    /\ cache \in CachedBefore(user_roles, AdminUser)
    /\ now = 0
    /\ mut = NoCall
    /\ mutated = {}
    /\ event = NoEvent
    /\ boot = [ w \in Workers |-> NoBoot ]
    /\ bootstrapCompleted = [ w \in Workers |-> FALSE ]
    /\ bootLog = << >>
    /\ mw = NoMw
    /\ InitExt

\* One resolve and one role mutation of the same user.
NextRace ==
    \/ \E r \in { SUPER_ADMIN, MEMBER } : mutated = {} /\ assignRole(AdminUser, r)
    \/ \E r \in { SUPER_ADMIN, MEMBER } : mutated = {} /\ removeRole(AdminUser, r)
    \/ invalidateCachedPermissions
    \/ getUserPermissionsQuery(AdminUser)
    \/ getUserPermissionsReturn

SpecRace == InitRace /\ [][NextRace]_vars

(***************************************************************************)
(* C35: the cache after a resolve and a role mutation have both returned   *)
(* (SpecRace).                                                             *)
(***************************************************************************)
\* The resolve and the role mutation of the user have both returned, and the
\* invalidation of the mutation has deleted what was cached before its
\* statement (no entry written before the statement is left).
RaceOver ==
    /\ resolving.pc = "returned" /\ resolving.ok
    /\ mut = NoCall
    /\ resolving.user \in mutated
    /\ ~(cache[resolving.user].present /\ cache[resolving.user].pre)

\* C35: whatever the order of the query and the return of a resolve of user u
\* and of the statement and the invalidation of an assignRole or removeRole
\* of u, once both calls have returned the cache holds no entry for u or
\* holds the array that resolves from user_roles as the mutation left it.
C35_NoStaleEntryAfterRace ==
    RaceOver
        => (\/ ~KvGet(cache, resolving.user, now).present
            \/ KvGet(cache, resolving.user, now).perms
                   = getUserPermissions(user_roles, cache, resolving.user))

\* The resolve queried before the statement of the mutation and returned
\* after its invalidation: it returned the array of before, and the cache
\* has no entry.
C35_Witness ==
    /\ RaceOver
    /\ event.op = "resolve"
    /\ resolving.perms # getUserPermissions(user_roles, cache, resolving.user)
    /\ ~cache[resolving.user].present

(***************************************************************************)
(* Sessions (user-mgmt session.ts, session-state session.ts): a login      *)
(* stores the permissions resolved at that moment under a new session id,  *)
(* and the gates read them from the session on every later request.        *)
(***************************************************************************)
SessionIds == { "s1", "s2" }

\* The user who logs in and whose role is assigned and removed.
SessionUser == 2

\* held: what the bindings of the user granted when the session was created.
NoSession ==
    [ present |-> FALSE, user |-> 0, hasPermissions |-> FALSE, permissions |-> << >>,
      createdAt |-> 0, held |-> {} ]

\* createSession(env, user) of user-mgmt: sessionData.permissions is the array
\* getUserPermissions returns; when RBAC is off or the query fails the session
\* is created without the field.
createSessionData(e, ur, kv, u, db_ok) ==
    IF getRbacEnabled(e) /\ db_ok
    THEN [ hasPermissions |-> TRUE, permissions |-> getUserPermissions(ur, kv, u) ]
    ELSE [ hasPermissions |-> FALSE, permissions |-> << >> ]

\* A bug: the session is given an expirationTtl of the cache's 60 seconds.
SessionLive_ExpiresWithCache(s, t) ==
    s.present /\ t < s.createdAt + CACHE_TTL_SECONDS

\* env.sessionstore.put(sessionId, JSON.stringify(data)) has no expirationTtl:
\* a session is there until it is deleted.
SessionLive(s, t) == s.present

\* loadSession and withSession: the request as the gates see it.
SessionRequest(s, t) ==
    [ session |-> IF SessionLive(s, t) THEN "valid" ELSE "none",
      hasPermissions |-> SessionLive(s, t) /\ s.hasPermissions,
      permissions |-> IF SessionLive(s, t) THEN s.permissions ELSE << >> ]

\* handleLogin for user u with the right password: createSession, then the
\* cookie with the new session id.  A failure of the session-state worker is
\* answered 500.
handleLogin(u, sid) ==
    /\ ~sessionstore[sid].present
    /\ \E db_ok \in BOOLEAN, svc_ok \in BOOLEAN :
         LET data == createSessionData(env, user_roles, LiveCache(cache, now), u, db_ok)
         IN /\ sessionstore' =
                  IF svc_ok
                  THEN [ sessionstore EXCEPT ![sid] =
                           [ present |-> TRUE, user |-> u,
                             hasPermissions |-> data.hasPermissions,
                             permissions |-> data.permissions,
                             createdAt |-> now,
                             held |-> EffectivePermissions(user_roles, u) ] ]
                  ELSE sessionstore
            /\ event' = [ Ev("handleLogin", u, "", svc_ok, ~db_ok, ~svc_ok, FALSE,
                             data.permissions, user_roles, << >>)
                            EXCEPT !.status = IF svc_ok THEN 200 ELSE 500,
                                   !.args = << sid >> ]
    /\ UNCHANGED << env, storeVars, cache, now, mut, mutated, bootVars, mw,
                    resolving, adding, userRows >>

\* handleLogout: deleteSession(env, sessionId).
handleLogout(sid) ==
    /\ sessionstore[sid].present
    /\ sessionstore' = [ sessionstore EXCEPT ![sid] = NoSession ]
    /\ event' = [ Ev("handleLogout", sessionstore[sid].user, "", TRUE, FALSE, FALSE,
                     FALSE, << >>, user_roles, << >>)
                    EXCEPT !.status = 200, !.args = << sid >> ]
    /\ UNCHANGED << env, storeVars, cache, now, mut, mutated, bootVars, mw,
                    resolving, adding, userRows >>

\* A request with the cookie of session sid to a route behind
\* requirePermission(permission): ok when the request continues to the
\* handler.  role keeps the permission required, ret the array of the session.
sessionRequest(sid, permission) ==
    /\ LET req == SessionRequest(sessionstore[sid], now)
           resp == IF req.session = "none"
                   THEN ErrorResponse("Invalid or expired session", 401)
                   ELSE requirePermissionMw(env, req, permission)
       IN event' = [ Ev("sessionRequest", sessionstore[sid].user, permission,
                        resp.status = 0, FALSE, FALSE, FALSE, req.permissions,
                        user_roles, << >>)
                       EXCEPT !.status = resp.status, !.args = << sid >> ]
    /\ UNCHANGED << env, storeVars, cache, now, mut, mutated, bootVars, mw,
                    extVars >>

\* The request of the administrator who assigns and removes the role.
AdminRequest ==
    [ session |-> "valid", hasPermissions |-> TRUE, permissions |-> << ADMIN_ALL >> ]

\* The administrator bootstrapped, the user a MEMBER, nobody logged in.
InitSession ==
    /\ env = [ RBAC_ENABLED |-> "true", SUPER_ADMIN_EMAIL |-> AdminEmail ]
    /\ users = Users
    /\ roles = SeededRoles
    /\ user_roles = { << AdminUser, SUPER_ADMIN >>, << SessionUser, MEMBER >> }
    /\ audit_logs = << >>
    /\ cache = [ u \in Users |-> NoEntry ]
    /\ now = 0
    /\ mut = NoCall
    /\ mutated = {}
    /\ event = NoEvent
    /\ boot = [ w \in Workers |-> NoBoot ]
    /\ bootstrapCompleted = [ w \in Workers |-> FALSE ]
    /\ bootLog = << >>
    /\ mw = NoMw
    /\ resolving = NoResolve
    /\ sessionstore = [ sid \in SessionIds |-> NoSession ]
    /\ adding = << >>
    /\ userRows = << >>

NextSession ==
    \/ \E sid \in SessionIds : handleLogin(SessionUser, sid)
    \/ \E sid \in SessionIds : handleLogout(sid)
    \/ \E sid \in SessionIds, p \in { "users:read", "roles:assign" } :
         sessionRequest(sid, p)
    \/ handleRemoveRole(AdminRequest, AdminUser, SessionUser, MEMBER)
    \/ Tick

SpecSession == InitSession /\ [][NextSession]_vars

(***************************************************************************)
(* C36: requests after a removal (SpecSession).                            *)
(***************************************************************************)
\* Row i of audit_logs records a removal from the user of the last request of
\* a role that grants the permission the request required, more than the 60
\* seconds of the cache ttl ago, and the bindings of the user no longer grant
\* that permission.
RevokedLongAgo(i) ==
    /\ audit_logs[i].action = "ROLE_REMOVED"
    /\ audit_logs[i].targetId = ToString(event.user)
    /\ event.role \in RolePermissions(audit_logs[i].details)
    /\ now > audit_logs[i].timestamp + CACHE_TTL_SECONDS
    /\ ~hasPermission(FilterSeq(PermissionNames, EffectivePermissions(user_roles, event.user)),
                      event.role)

\* C36, as claimed: once a removal of role r from user u has succeeded, no
\* request of u more than 60 seconds later passes a gate on a permission that
\* only r granted, whichever session it comes on.
C36_Original_RevokedAfterTtl ==
    (event.op = "sessionRequest" /\ event.ok)
        => ~\E i \in 1..Len(audit_logs) : RevokedLongAgo(i)

\* The permissions of the set held that a gate would let through.
Authorizes(permissions) ==
    { p \in Range(PermissionNames) : hasPermission(permissions, p) }

\* C36, amended: a session carries the permissions the bindings of its user
\* granted when it was created, for as long as it exists: a request is let
\* through by a permission exactly when the session was created while the
\* user held it.  So a session created after a removal is not let through by
\* a permission only the removed role granted, and a session created before
\* the removal is, until it is deleted.
C36_SessionKeepsPermissionsOfLogin ==
    /\ \A sid \in SessionIds :
         (sessionstore[sid].present /\ sessionstore[sid].hasPermissions)
            => Authorizes(sessionstore[sid].permissions)
                   = Authorizes(FilterSeq(PermissionNames, sessionstore[sid].held))
    /\ (event.op = "sessionRequest" /\ sessionstore[event.args[1]].present)
            => (event.ok <=>
                   /\ sessionstore[event.args[1]].hasPermissions
                   /\ event.role \in Authorizes(FilterSeq(PermissionNames,
                                                        sessionstore[event.args[1]].held)))

\* A session created after the removal is refused users:read while a session
\* created before it still exists.
C36_Witness ==
    /\ event.op = "sessionRequest" /\ ~event.ok /\ event.status = 403
    /\ event.role = "users:read"
    /\ sessionstore[event.args[1]].hasPermissions
    /\ \E i \in 1..Len(audit_logs) :
         /\ audit_logs[i].action = "ROLE_REMOVED"
         /\ audit_logs[i].timestamp < sessionstore[event.args[1]].createdAt
    /\ \E sid \in SessionIds :
         /\ sessionstore[sid].present
         /\ "users:read" \in Authorizes(sessionstore[sid].permissions)

(***************************************************************************)
(* C37: bootstrapSuperAdmin on two worker instances at once (SpecBoot).    *)
(***************************************************************************)
\* Two calls have returned, the second having begun before the first
\* returned, for a configured user who was registered and with the role
\* seeded when they began, and no statement of either failed.
RanConcurrently ==
    /\ Len(bootLog) = 2
    /\ \A w \in Workers : boot[w].pc = "none"
    /\ bootLog[1].worker # bootLog[2].worker
    /\ bootLog[2].startedAfter = 0
    /\ \A i \in 1..2 : bootLog[i].applicable /\ ~bootLog[i].fault

\* C37: when bootstrapSuperAdmin has run on two worker instances at the same
\* time for the same configured user, there is exactly one SUPER_ADMIN
\* binding of that user and exactly one BOOTSTRAP_SUPER_ADMIN row in
\* audit_logs.
C37_ConcurrentBootstrapOnce ==
    RanConcurrently
        => /\ BindingCount(user_roles, AdminUser, SUPER_ADMIN) = 1
           /\ BootstrapAuditCount(AdminUser) = 1

\* The binding alone: two concurrent calls leave one binding.
C37_OneBinding ==
    RanConcurrently => BindingCount(user_roles, AdminUser, SUPER_ADMIN) = 1

(***************************************************************************)
(* C38: an assignment or removal whose statement fails (SpecApi).          *)
(***************************************************************************)
\* C38: a request to assign or remove a role whose INSERT or DELETE fails on
\* the Store is answered with a failure (500), and the step that serves it
\* leaves user_roles, roles, the cache and audit_logs as they were: no
\* invalidation is issued and no ROLE_ASSIGNED or ROLE_REMOVED row is
\* written.
C38_FailedStatementChangesNothing ==
    [][ (/\ event'.op \in { "handleAssignRole", "handleRemoveRole" }
         /\ event'.dbFault
         /\ Includes(event'.effects, "store_fail"))
            => /\ event'.status = 500 /\ ~event'.ok
               /\ event'.effects = << "store_fail" >>
               /\ UNCHANGED << user_roles, roles, cache, audit_logs >> ]_vars

\* A removal whose DELETE failed: answered 500, the binding made earlier and
\* its audit row are all there is.
C38_Witness ==
    /\ event.op = "handleRemoveRole"
    /\ event.effects = << "store_fail" >>
    /\ event.status = 500
    /\ << event.user, event.role >> \in user_roles
    /\ Len(audit_logs) = 1 /\ audit_logs[1].action = "ROLE_ASSIGNED"

(***************************************************************************)
(* Password reset (handlers.ts: handleForgotPassword,                      *)
(* handleForgotPasswordValidate, handleForgotPasswordNewPassword; utils.ts *)
(* storeResetToken, getUserByResetToken, updatePassword, isTokenExpired).  *)
(* userRows holds, per user id, the Password, ResetToken and               *)
(* ResetTokenTime columns of the User row; NULL is None for the token and  *)
(* the empty sequence for its time.  The clock now is Date.now(), in       *)
(* seconds.                                                                *)
(***************************************************************************)
\* env.TOKEN_VALID_MINUTES as configured.
TOKEN_VALID_MINUTES == 60
\* const millisecondsInMinute = 1000 * 60, on a clock of seconds.
SecondsInMinute == 60
\* The reset flow is followed until the clock reads MaxResetTime, in steps of
\* ResetTickStep seconds.
MaxResetTime == 7200
ResetTickStep == 1800

\* The values of crypto.getRandomValues(new Uint8Array(16)).join('').
ResetTokens == { "t1", "t2" }
\* A token no request for a reset was ever answered with.
ForgedToken == "forged"
NewPasswords == { "pw1", "pw2" }

\* hashPassword: `${salt}:${hashHex}`.
hashPassword(password) == "salt:sha256(" \o password \o ")"

\* storeResetToken: UPDATE User SET ResetToken = ?, ResetTokenTime = ?
\* WHERE Username = ?, with Date.now().
storeResetToken(rows, u, resetToken, t) ==
    [ rows EXCEPT ![u].ResetToken = resetToken, ![u].ResetTokenTime = << t >> ]

\* getUserByResetToken: SELECT * FROM User WHERE ResetToken = ?; the first row
\* of the result, or null.  No row matches a NULL ResetToken.
getUserByResetToken(rows, token) ==
    LET found == { u \in DOMAIN rows :
                     rows[u].ResetToken # None /\ rows[u].ResetToken = token }
    IN IF found = {} THEN << >>
       ELSE << CHOOSE u \in found : \A v \in found : u <= v >>

\* updatePassword: UPDATE User SET Password = ?, ResetToken = NULL,
\* ResetTokenTime = NULL WHERE Username = ?
updatePassword(rows, u, hashedPassword) ==
    [ rows EXCEPT ![u].Password = hashedPassword,
                  ![u].ResetToken = None, ![u].ResetTokenTime = << >> ]

\* isTokenExpired: Date.now() - tokenTime > env.TOKEN_VALID_MINUTES * 60000
isTokenExpired(tokenTime, t) == t - tokenTime > TOKEN_VALID_MINUTES * SecondsInMinute

\* What a reset handler returned: the token and the row it was about (none
\* when no row matched), and the response.
ResetEvent(op, token, found, status, error, dbFault) ==
    [ Ev(op, IF found = << >> THEN 0 ELSE found[1], token, status = 200, dbFault,
         FALSE, found # << >>,
         IF found = << >> THEN << >> ELSE << userRows[found[1]] >>,
         user_roles, << >>)
      EXCEPT !.status = status, !.args = << error >> ]

ResetFrame ==
    UNCHANGED << resolving, sessionstore, adding, env, storeVars, cache, now, mut,
                 mutated, bootVars, mw >>

\* handleForgotPassword: POST /forgot-password.  sendEmail logs its own
\* failures and returns.
handleForgotPassword(u, resetToken, db_ok) ==
    /\ \A v \in DOMAIN userRows : userRows[v].ResetToken # resetToken
    /\ IF u \notin DOMAIN userRows
       THEN /\ event' = ResetEvent("handleForgotPassword", resetToken, << >>, 404,
                                   "User not found", FALSE)
            /\ UNCHANGED userRows
       ELSE IF ~db_ok
       THEN /\ event' = ResetEvent("handleForgotPassword", resetToken, << u >>, 500,
                                   "Internal server error", TRUE)
            /\ UNCHANGED userRows
       ELSE /\ userRows' = storeResetToken(userRows, u, resetToken, now)
            /\ event' = ResetEvent("handleForgotPassword", resetToken, << u >>, 200,
                                   "", FALSE)
    /\ ResetFrame

\* handleForgotPasswordValidate: POST /forgot-password-validate
handleForgotPasswordValidate(token) ==
    /\ \E found \in { getUserByResetToken(userRows, token) } :
         event' =
           IF found = << >>
           THEN ResetEvent("handleForgotPasswordValidate", token, found, 400,
                           "Invalid token", FALSE)
           ELSE IF isTokenExpired(userRows[found[1]].ResetTokenTime[1], now)
           THEN ResetEvent("handleForgotPasswordValidate", token, found, 400,
                           "Token expired", FALSE)
           ELSE ResetEvent("handleForgotPasswordValidate", token, found, 200, "", FALSE)
    /\ UNCHANGED userRows
    /\ ResetFrame

\* if (!user) return 400 'Invalid token': all that handleForgotPasswordNewPassword
\* asks of the token.
newPasswordTokenCheck(found, t) == IF found = << >> THEN "Invalid token" ELSE ""

\* handleForgotPasswordNewPassword: POST /forgot-password-new-password
handleForgotPasswordNewPassword(token, password, db_ok) ==
    /\ \E found \in { getUserByResetToken(userRows, token) } :
         IF newPasswordTokenCheck(found, now) # ""
         THEN /\ event' = ResetEvent("handleForgotPasswordNewPassword", token, found,
                                     400, newPasswordTokenCheck(found, now), FALSE)
              /\ UNCHANGED userRows
         ELSE IF ~db_ok
         THEN /\ event' = ResetEvent("handleForgotPasswordNewPassword", token, found,
                                     500, "Internal server error", TRUE)
              /\ UNCHANGED userRows
         ELSE /\ userRows' = updatePassword(userRows, found[1], hashPassword(password))
              /\ event' = ResetEvent("handleForgotPasswordNewPassword", token, found,
                                     200, "", FALSE)
    /\ ResetFrame

\* Time passes.
ResetTick ==
    /\ now + ResetTickStep <= MaxResetTime
    /\ now' = now + ResetTickStep
    /\ event' = NoEvent
    /\ UNCHANGED << extVars, env, storeVars, cache, mut, mutated, bootVars, mw >>

InitReset ==
    /\ env = [ RBAC_ENABLED |-> "false", SUPER_ADMIN_EMAIL |-> None ]
    /\ users = Users
    /\ roles = RoleIds
    /\ user_roles = {}
    /\ audit_logs = << >>
    /\ cache = << >>
    /\ now = 0
    /\ mut = NoCall
    /\ mutated = {}
    /\ event = NoEvent
    /\ boot = [ w \in Workers |-> NoBoot ]
    /\ bootstrapCompleted = [ w \in Workers |-> FALSE ]
    /\ bootLog = << >>
    /\ mw = NoMw
    /\ resolving = NoResolve
    /\ sessionstore = << >>
    /\ adding = << >>
    /\ userRows = [ u \in Users |->
                      [ Password |-> hashPassword("pw0"), ResetToken |-> None,
                        ResetTokenTime |-> << >> ] ]

NextReset ==
    \/ \E u \in Users \cup { UnknownUser }, resetToken \in ResetTokens,
          db_ok \in BOOLEAN :
         handleForgotPassword(u, resetToken, db_ok)
    \/ \E token \in ResetTokens \cup { ForgedToken } :
         handleForgotPasswordValidate(token)
    \/ \E token \in ResetTokens \cup { ForgedToken }, password \in NewPasswords,
          db_ok \in BOOLEAN :
         handleForgotPasswordNewPassword(token, password, db_ok)
    \/ ResetTick

SpecReset == InitReset /\ [][NextReset]_vars

(***************************************************************************)
(* C39: which reset tokens buy a new password (SpecReset).                 *)
(***************************************************************************)
\* The row a reset handler found, as it was when the handler looked.
FoundRow == event.ret[1]

\* C39: forgot-password-new-password stores a new password only when the
\* token supplied is the token stored for some user at that moment and that
\* token was stored no more than TOKEN_VALID_MINUTES minutes before.
C39_NewPasswordNeedsFreshToken ==
    (event.op = "handleForgotPasswordNewPassword" /\ event.status = 200)
        => /\ event.ret # << >>
           /\ FoundRow.ResetToken = event.role
           /\ ~isTokenExpired(FoundRow.ResetTokenTime[1], now)

\* C39, the half about the token: a new password is stored only for the user
\* whose stored token is the token supplied, and storing it uses the token up.
C39_NewPasswordNeedsStoredToken ==
    (event.op = "handleForgotPasswordNewPassword" /\ event.status = 200)
        => /\ event.ret # << >>
           /\ FoundRow.ResetToken = event.role
           /\ event.role # None
           /\ userRows[event.user].ResetToken = None

\* C39, the half about the age as forgot-password-validate applies it: a
\* token is answered 'Valid Token' only when it is stored and no older than
\* TOKEN_VALID_MINUTES minutes.
C39_ValidateRefusesExpired ==
    (event.op = "handleForgotPasswordValidate" /\ event.status = 200)
        => /\ event.ret # << >>
           /\ FoundRow.ResetToken = event.role
           /\ ~isTokenExpired(FoundRow.ResetTokenTime[1], now)

\* A new password was stored on a token older than TOKEN_VALID_MINUTES.
C39_WitnessExpiredAccepted ==
    /\ event.op = "handleForgotPasswordNewPassword" /\ event.status = 200
    /\ event.ret # << >>
    /\ isTokenExpired(FoundRow.ResetTokenTime[1], now)
    /\ userRows[event.user].Password # hashPassword("pw0")

(***************************************************************************)
(* The session-state worker (session-state/src/session.ts, handlers.ts):   *)
(* PATCH /add/:sessionId.  sessionstore holds, per session id, the JSON    *)
(* text put there; adding holds the handleAddToSession calls, each between *)
(* its get and its put.  An object is a function from its keys to their    *)
(* values, its JSON text the set of its members.                           *)
(***************************************************************************)
AddCalls == { "call1", "call2" }
AddSessionIds == { "s1", "s2" }
AddKeys == { "cart", "theme" }
AddValues == { "x", "y" }

\* JSON.stringify of an object of strings.
JSON_stringify(obj) == { << k, obj[k] >> : k \in DOMAIN obj }

\* JSON.parse of such a text.
JSON_parse(text) ==
    [ k \in { m[1] : m \in text } |-> (CHOOSE m \in text : m[1] = k)[2] ]

\* { ...a, ...b }: the members of a, then those of b over them.
Spread(a, b) ==
    [ k \in DOMAIN a \cup DOMAIN b |-> IF k \in DOMAIN b THEN b[k] ELSE a[k] ]

\* getSessionData: data ? JSON.parse(data) : null.  null spreads to nothing
\* and is returned here as the empty object, with found telling the two apart.
getSessionData(kv, sessionId) ==
    IF sessionId \in DOMAIN kv
    THEN [ found |-> TRUE, data |-> JSON_parse(kv[sessionId]) ]
    ELSE [ found |-> FALSE, data |-> << >> ]

\* updateSession: env.sessionstore.put(sessionId, JSON.stringify(data))
updateSession(kv, sessionId, data) ==
    [ s \in DOMAIN kv \cup { sessionId } |->
        IF s = sessionId THEN JSON_stringify(data) ELSE kv[s] ]

\* No call: the slot of a request that has not come in.
NoAdd ==
    [ pc |-> "idle", sessionId |-> "", data |-> << >>, sessionData |-> << >>,
      overlapped |-> FALSE, status |-> 0 ]

AddFrame ==
    UNCHANGED << resolving, userRows, env, storeVars, cache, now, mut, mutated, event,
                 bootVars, mw >>

\* updateSession(sessionId, { ...sessionData, ...data }, env): the object
\* spread is the one the call read before its put.
addToSessionBase(kv, call) == call.sessionData

\* handleAddToSession up to the end of the first await of addToSession:
\* const sessionData = await getSessionData(sessionId, env).  A get that
\* fails is answered 500.
addToSessionGet(c, sessionId, data, kv_ok) ==
    /\ adding[c].pc = "idle"
    /\ adding' =
         [ adding EXCEPT ![c] =
             IF kv_ok
             THEN [ pc |-> "read", sessionId |-> sessionId, data |-> data,
                    sessionData |-> getSessionData(sessionstore, sessionId).data,
                    overlapped |-> \E d \in AddCalls \ { c } : adding[d].pc = "read",
                    status |-> 0 ]
             ELSE [ pc |-> "done", sessionId |-> sessionId, data |-> data,
                    sessionData |-> << >>, overlapped |-> FALSE, status |-> 500 ] ]
    /\ UNCHANGED sessionstore
    /\ AddFrame

\* The second await of addToSession and the response of handleAddToSession:
\* 200 'Session updated with additional data', or 500 when the put failed.
addToSessionPut(c, kv_ok) ==
    /\ adding[c].pc = "read"
    /\ sessionstore' =
         IF kv_ok
         THEN updateSession(sessionstore, adding[c].sessionId,
                            Spread(addToSessionBase(sessionstore, adding[c]),
                                   adding[c].data))
         ELSE sessionstore
    /\ adding' = [ adding EXCEPT ![c].pc = "done",
                                 ![c].status = IF kv_ok THEN 200 ELSE 500 ]
    /\ AddFrame

InitAdd ==
    /\ env = [ RBAC_ENABLED |-> "false", SUPER_ADMIN_EMAIL |-> None ]
    /\ users = Users
    /\ roles = RoleIds
    /\ user_roles = {}
    /\ audit_logs = << >>
    /\ cache = << >>
    /\ now = 0
    /\ mut = NoCall
    /\ mutated = {}
    /\ event = NoEvent
    /\ boot = [ w \in Workers |-> NoBoot ]
    /\ bootstrapCompleted = [ w \in Workers |-> FALSE ]
    /\ bootLog = << >>
    /\ mw = NoMw
    /\ resolving = NoResolve
    /\ userRows = << >>
    /\ sessionstore = [ s \in AddSessionIds |-> JSON_stringify([ k \in { "username" } |-> "x" ]) ]
    /\ adding = [ c \in AddCalls |-> NoAdd ]

NextAdd ==
    \/ \E c \in AddCalls, sessionId \in AddSessionIds, k \in AddKeys, v \in AddValues,
          kv_ok \in BOOLEAN :
         addToSessionGet(c, sessionId, [ key \in { k } |-> v ], kv_ok)
    \/ \E c \in AddCalls, kv_ok \in BOOLEAN : addToSessionPut(c, kv_ok)

SpecAdd == InitAdd /\ [][NextAdd]_vars

(***************************************************************************)
(* C40: two addToSession calls on one session (SpecAdd).                   *)
(***************************************************************************)
\* Both calls have been answered 200, for the same session and with
\* different keys.
BothAdded ==
    /\ \A c \in AddCalls : adding[c].pc = "done" /\ adding[c].status = 200
    /\ adding["call1"].sessionId = adding["call2"].sessionId
    /\ DOMAIN adding["call1"].data \cap DOMAIN adding["call2"].data = {}

\* The stored session holds what the call added.
AdditionKept(c) ==
    LET stored == getSessionData(sessionstore, adding[c].sessionId).data
    IN \A k \in DOMAIN adding[c].data :
         k \in DOMAIN stored /\ stored[k] = adding[c].data[k]

\* C40: when two addToSession calls on the same session, adding different
\* keys and running at the same time, have both completed, the stored session
\* holds the additions of both.
C40_ConcurrentAddsBothKept ==
    (BothAdded /\ \E c \in AddCalls : adding[c].overlapped)
        => \A c \in AddCalls : AdditionKept(c)

\* C40, one call after the other: the stored session holds both additions,
\* and what the session held before them.
C40_SequentialAddsBothKept ==
    (BothAdded /\ \A c \in AddCalls : ~adding[c].overlapped)
        => /\ \A c \in AddCalls : AdditionKept(c)
           /\ getSessionData(sessionstore, adding["call1"].sessionId).data["username"] = "x"

\* Two calls that ran at the same time were both answered 200 and the stored
\* session lacks what one of them added.
C40_WitnessLostAddition ==
    /\ BothAdded
    /\ \E c \in AddCalls : adding[c].overlapped
    /\ \E c \in AddCalls : ~AdditionKept(c)

====
